---- MODULE Spec2Model ----
(***************************************************************************)
(* Order lifecycle controller of the Aster MVP grid bot                    *)
(* (src/bot/mvp_bot.py, src/bot/state.py, src/bot/grid.py,                 *)
(* src/bot/client.py).                                                     *)
(*                                                                         *)
(* Units.  Prices are integers counted in half ticks, so that the mid      *)
(* (bid + ask) / 2 of two tick-aligned quotes is representable and         *)
(* _floor_to_tick / _ceil_to_tick are not the identity.  Quantities are    *)
(* integers counted in step_size units.  Floating point rounding error is  *)
(* outside the model.                                                      *)
(*                                                                         *)
(* Scheduling.  The bot is a set of asyncio tasks on one thread.  A task   *)
(* runs without interruption from one suspension point (a REST call, a     *)
(* stream receive, a timer, a contended lock) to the next.  The variable   *)
(* cur names the task that is running between two suspension points; when  *)
(* it is NoTask the event loop picks any task whose awaited thing is       *)
(* ready.  The order-lock is only ever held across code without a          *)
(* suspension point, so it is never contended and its regions are part of  *)
(* the atomic steps.                                                       *)
(***************************************************************************)
EXTENDS Integers, Sequences, FiniteSets, TLC

\* ------------------------------------------------------------------ bounds
\* External activations after bootstrap (stream messages and timer ticks).
MaxEvents == 2
\* Abnormal answers of the exchange in one run, of three kinds: a REST call
\* that ends in an error the retry wrapper gives up on (faults), an
\* acknowledgement whose order id or client id stamp repeats a live one
\* (reuse), a rebuild body that finds an open position to flatten (flattens).
MaxAnomalies == 1

\* ------------------------------------------------- exchange filters, config
TICK == 2
MIN_QTY == 1
MIN_NOTIONAL == 150
PREFERRED_BASE_QTY == 1
GRID_SPACING == 4
MIN_LEVELS_PER_SIDE == 1
LEVERAGE == 1
MARGIN_RESERVE_PCT == 10
MAX_GUARD_ITERATIONS == 50
MAX_FLATTEN_ATTEMPTS == 10

BUY == "BUY"
SELL == "SELL"
NoTask == "none"
\* None, for a price or an order id.
NONE == 0 - 1
NoLayout == [ok |-> FALSE]

\* Quotes the exchange may publish: (bid, ask), tick aligned, bid < ask.
Tickers == { <<100, 104>>, <<96, 98>>, <<110, 112>>, <<2, 4>> }
BootTickers == { <<100, 104>>, <<2, 4>>, <<0, 0>> }
\* Balances the exchange may report (in price unit * quantity unit).
Balances == { 300 }
\* Configurations: dry_run, maker_guard_ticks, recenter_threshold (in
\* hundredths), dry_run_virtual_balance.
Configs ==
  { [dry_run |-> TRUE,  maker_guard_ticks |-> 1,  recenter_threshold |-> 100,
     dry_run_virtual_balance |-> 500],
    [dry_run |-> TRUE,  maker_guard_ticks |-> 53, recenter_threshold |-> 100,
     dry_run_virtual_balance |-> 500],
    [dry_run |-> TRUE,  maker_guard_ticks |-> 1,  recenter_threshold |-> 50,
     dry_run_virtual_balance |-> 500],
    [dry_run |-> TRUE,  maker_guard_ticks |-> 1,  recenter_threshold |-> 0,
     dry_run_virtual_balance |-> 500],
    [dry_run |-> FALSE, maker_guard_ticks |-> 1,  recenter_threshold |-> 100,
     dry_run_virtual_balance |-> 500] }

Max(a, b) == IF a >= b THEN a ELSE b
Min(a, b) == IF a <= b THEN a ELSE b
Abs(a) == IF a >= 0 THEN a ELSE -a

\* ------------------------------------------------------------- price math
\* math.floor(value / tick) * tick
_floor_to_tick(value, tick) == IF tick <= 0 THEN value ELSE (value \div tick) * tick

\* math.ceil(value / tick) * tick
_ceil_to_tick(value, tick) == IF tick <= 0 THEN value ELSE (-((-value) \div tick)) * tick

\* f"{value:.{price_decimals}f}": the decimal grid is the tick grid; a value
\* between two ticks is printed as the nearer tick (the upper one on a tie).
_format_price(value) == ((value + (TICK \div 2)) \div TICK) * TICK

\* ---------------------------------------------------------------- grid.py
RECURSIVE QuantityLoop(_, _, _)
QuantityLoop(price, steps, qty) ==
  IF price * qty < MIN_NOTIONAL
  THEN IF steps + 1 > 1000000 THEN 0 ELSE QuantityLoop(price, steps + 1, steps + 1)
  ELSE qty

\* _compute_quantity: 0 stands for GridComputationError.
_compute_quantity(price) ==
  IF price <= 0 THEN 0
  ELSE LET steps == Max(1, PREFERRED_BASE_QTY)
           qty == IF steps < MIN_QTY THEN MIN_QTY ELSE steps
       IN QuantityLoop(price, steps, qty)

GridLevel(index, side, price, quantity) ==
  [index |-> index, side |-> side, price |-> price, quantity |-> quantity]

spacing_of_grid == Max(1, -((-GRID_SPACING) \div TICK)) * TICK

RECURSIVE GridLevels(_, _, _)
GridLevels(mid_price, step, levels_per_side) ==
  IF step > levels_per_side THEN << >>
  ELSE LET buy_price == _floor_to_tick(mid_price - spacing_of_grid * step, TICK)
           sell_price == _ceil_to_tick(mid_price + spacing_of_grid * step, TICK)
       IN << GridLevel(2 * (step - 1), BUY, buy_price, _compute_quantity(buy_price)),
             GridLevel(2 * (step - 1) + 1, SELL, sell_price, _compute_quantity(sell_price)) >>
          \o GridLevels(mid_price, step + 1, levels_per_side)

\* A build_grid that raises only for its arguments and returns whatever
\* levels it computed; the all-or-nothing property tells it from the real one.
build_grid_unchecked(mid_price, levels_per_side) ==
  LET levels == GridLevels(mid_price, 1, levels_per_side)
  IN IF mid_price <= 0 \/ levels_per_side <= 0 THEN [ok |-> FALSE]
     ELSE [ok |-> TRUE,
           center_price |-> mid_price,
           lower_price |-> levels[Len(levels) - 1].price,
           upper_price |-> levels[Len(levels)].price,
           spacing |-> spacing_of_grid,
           levels_per_side |-> levels_per_side,
           levels |-> levels]

\* build_grid: ok = FALSE stands for GridComputationError.
build_grid(mid_price, levels_per_side) ==
  LET levels == GridLevels(mid_price, 1, levels_per_side)
      bad == \/ mid_price <= 0
             \/ levels_per_side <= 0
             \/ \E i \in 1..Len(levels) : levels[i].price <= 0 \/ levels[i].quantity <= 0
      buys == { levels[i].price : i \in { j \in 1..Len(levels) : levels[j].side = BUY } }
      sells == { levels[i].price : i \in { j \in 1..Len(levels) : levels[j].side = SELL } }
  IN IF bad THEN [ok |-> FALSE]
     ELSE [ok |-> TRUE,
           center_price |-> mid_price,
           lower_price |-> CHOOSE p \in buys \cup {mid_price} :
                             \A q \in buys \cup {mid_price} : p <= q,
           upper_price |-> CHOOSE p \in sells \cup {mid_price} :
                             \A q \in sells \cup {mid_price} : p >= q,
           spacing |-> spacing_of_grid,
           levels_per_side |-> levels_per_side,
           levels |-> levels]

\* _determine_levels_per_side, on the balance the gateway returned.
_determine_levels_per_side(mid_price, available) ==
  LET leverage == Max(1, LEVERAGE)
      reserve == Max(0, Min(100, MARGIN_RESERVE_PCT))
      budget100 == Max(0, available * (100 - reserve))
      pair_margin_num == 2 * mid_price * PREFERRED_BASE_QTY
      raw_levels == (budget100 * leverage) \div (100 * pair_margin_num)
      levels == Max(MIN_LEVELS_PER_SIDE, raw_levels)
  IN IF pair_margin_num <= 0 THEN Max(1, MIN_LEVELS_PER_SIDE)
     ELSE IF levels <= 0 THEN Max(1, MIN_LEVELS_PER_SIDE) ELSE levels

\* ---------------------------------------------------------------- state.py
\* RuntimeState.track_order on the pair of maps.
track_order(st, order_id, record) ==
  [open_orders |-> [k \in DOMAIN st.open_orders \cup {order_id} |->
                      IF k = order_id THEN record ELSE st.open_orders[k]],
   by_client_id |-> [c \in DOMAIN st.by_client_id \cup {record.client_order_id} |->
                      IF c = record.client_order_id THEN order_id ELSE st.by_client_id[c]]]

\* RuntimeState.drop_order on the pair of maps.
drop_order(st, order_id) ==
  IF order_id \in DOMAIN st.open_orders
  THEN LET record == st.open_orders[order_id]
       IN [open_orders |-> [k \in DOMAIN st.open_orders \ {order_id} |-> st.open_orders[k]],
           by_client_id |-> [c \in DOMAIN st.by_client_id \ {record.client_order_id} |->
                              st.by_client_id[c]]]
  ELSE st

\* RuntimeState.get_by_client_id: the key of the record found, 0 for None.
get_by_client_id(st, client_id) ==
  IF client_id \in DOMAIN st.by_client_id
  THEN IF st.by_client_id[client_id] \in DOMAIN st.open_orders
       THEN st.by_client_id[client_id] ELSE 0
  ELSE 0

EmptyMap == [k \in {} |-> 0]

\* ------------------------------------------------------------------ state
VARIABLES
  cfg,            \* BotConfig fields the controller branches on
  best_bid,       \* AsterMVPGridBot.best_bid
  best_ask,       \* AsterMVPGridBot.best_ask
  grid_layout,    \* AsterMVPGridBot.grid_layout (None before bootstrap)
  open_orders,    \* RuntimeState.open_orders: order_id -> OrderRecord
  by_client_id,   \* RuntimeState.by_client_id: client_order_id -> order_id
  grid_center,    \* RuntimeState.grid_center
  last_mid,       \* RuntimeState.last_mid
  market_stale,   \* time.monotonic() - state.last_market_ts > kill_switch_ms / 1000
  user_stale,     \* time.monotonic() - state.last_user_ts > kill_switch_ms / 1000
  recenter_due,   \* time.time() - _last_recenter_time >= 300
  listen_key,     \* whether _listen_key is set
  restart_lock,   \* holder of _restart_lock, or NoTask
  cur,            \* the task running between two suspension points, or NoTask
  pc,             \* each task's position
  loc,            \* each task's local variables
  events,         \* external activations so far
  faults,         \* failed REST calls so far
  reuse,          \* repeated ids so far
  flattens,       \* rebuild bodies that found an open position so far
  exchange,       \* ids of the bot's limit orders live on the exchange
  shutdown,       \* what _shutdown has done
  order_lock,     \* holder of _order_lock, or NoTask
  recenter_aborted, \* a _recenter has raised "Position not flat after 10 attempts"
  unlocked_access, \* the functions that have touched the order table outside _order_lock
  order_error,    \* code of the RestAPIError the new_order or cancel_order answered in
                  \* the last step ended with (NoError when the step was no such failure)
  position_held,  \* base position bought by the last rebuild, plus filled BUY quantity,
                  \* minus filled SELL quantity
  unit            \* the component exercised on its own (NoUnit in the controller)

vars == << cfg, best_bid, best_ask, grid_layout, open_orders, by_client_id, grid_center,
           last_mid, market_stale, user_stale, recenter_due, listen_key, restart_lock,
           cur, pc, loc, events, faults, reuse, flattens, exchange, shutdown,
           order_lock, recenter_aborted, unlocked_access, order_error, position_held,
           unit >>

Tasks == { "main", "market", "user", "kill", "maint" }

\* Positions from which a task goes on without yielding to the event loop.
Immediate == { "guard_loop", "ensure", "check_recenter", "deploy_loop", "restart_begin",
               "body_end" }

\* Positions at which a task awaits a gateway call that the dry-run client
\* answers without any I/O (client.py returns the stub before any await).
Stubbed == { "submit_wait", "cancel_wait", "cancel_all_wait", "position_wait",
             "balance_wait" }

\* No order call has just failed.
NoError == ""

\* No component is exercised on its own.
NoUnit == [op |-> "none"]

\* _order_lock once a task leaves `async with self._order_lock` while holding
\* it across a suspension point; the lock property tells it from the real
\* one.
OrderLockKept(t) == t

\* _order_lock once task t leaves `async with self._order_lock`.
OrderLockReleased(t) == NoTask

\* `async with self._order_lock` around code without any await, when the step
\* of task t enters it: the lock has to be free, and the step leaves it as the
\* end of the block does.
OrderLockRegion(t, entered) ==
  IF entered
  THEN order_lock = NoTask /\ order_lock' = OrderLockReleased(t)
  ELSE UNCHANGED order_lock

\* _shutdown has not run.
NotShutDown == [ran |-> FALSE, key_close_sent |-> FALSE, transport_closed |-> FALSE]

NoLevel == GridLevel(-1, BUY, 0, 0)
NoBody == [kind |-> "none", reason |-> "", mid |-> 0, polls |-> 0,
           flat_seen |-> FALSE, flatten_sent |-> FALSE]
\* The order _submit_level_order is sending: the level, the payload's price,
\* quantity, newClientOrderId and reduceOnly, and whether self.state and
\* self.grid_layout were replaced since the call started (stale).
NoSub == [level |-> NoLevel, price |-> 0, quantity |-> 0, client_id |-> << -1, 0 >>,
          reduce_only |-> FALSE, stale |-> FALSE]
NoMove == [order_id |-> 0, side |-> BUY, level |-> NoLevel]
\* record of _handle_order_trade once it is a fill to refill, with the number
\* of tracked orders the handler found (count, kept for the properties).
NoFill == [order_id |-> 0, side |-> BUY, price |-> 0, quantity |-> 0, level_index |-> -1,
           count |-> 0]

NoLocals ==
  [snap |-> << >>, mv |-> NoMove, sub |-> NoSub, ret |-> "idle", body |-> NoBody,
   dep_pos |-> 0, dep_alias |-> FALSE, dep_levels |-> << >>,
   in_soft |-> FALSE, tick_mid |-> 0, fill |-> NoFill,
   base_qty |-> 0, base_ok |-> FALSE]

st_now == [open_orders |-> open_orders, by_client_id |-> by_client_id]

Init ==
  /\ cfg \in Configs
  /\ best_bid = NONE
  /\ best_ask = NONE
  /\ grid_layout = NoLayout
  /\ open_orders = EmptyMap
  /\ by_client_id = EmptyMap
  /\ grid_center = 0
  /\ last_mid = 0
  /\ market_stale = FALSE
  /\ user_stale = FALSE
  /\ recenter_due = FALSE
  /\ listen_key = FALSE
  /\ restart_lock = NoTask
  /\ cur = NoTask
  /\ pc = [t \in Tasks |-> IF t = "main" THEN "boot_ticker_wait" ELSE "idle"]
  /\ loc = [t \in Tasks |-> NoLocals]
  /\ events = 0
  /\ faults = 0
  /\ reuse = 0
  /\ flattens = 0
  /\ exchange = {}
  /\ shutdown = NotShutDown
  /\ order_lock = NoTask
  /\ recenter_aborted = FALSE
  /\ unlocked_access = {}
  /\ order_error = NoError
  /\ position_held = 0
  /\ unit = NoUnit

\* ------------------------------------------------ mvp_bot.py: pure helpers
\* _order_exists on a given order table.
_order_exists(oo, side, price) ==
  \E k \in DOMAIN oo : oo[k].side = side /\ _format_price(oo[k].price) = _format_price(price)

RECURSIVE BuyGuardLoop(_, _, _, _)
BuyGuardLoop(price, ask, guard_distance, iterations) ==
  IF ask - price <= guard_distance /\ price > TICK
  THEN IF iterations + 1 > MAX_GUARD_ITERATIONS
       THEN Max(TICK, price - TICK)
       ELSE BuyGuardLoop(Max(TICK, price - TICK), ask, guard_distance, iterations + 1)
  ELSE price

RECURSIVE SellGuardLoop(_, _, _, _)
SellGuardLoop(price, bid, guard_distance, iterations) ==
  IF price - bid <= guard_distance
  THEN IF iterations + 1 > MAX_GUARD_ITERATIONS
       THEN price + TICK
       ELSE SellGuardLoop(price + TICK, bid, guard_distance, iterations + 1)
  ELSE price

\* _adjust_price_for_guard: the price sent for a level, given the book.
_adjust_price_for_guard(level, bid, ask, maker_guard_ticks) ==
  LET guard_distance == Max(0, maker_guard_ticks) * TICK
      price ==
        IF level.side = BUY /\ ask # NONE
        THEN BuyGuardLoop(_floor_to_tick(Min(level.price, ask - TICK), TICK), ask,
                          guard_distance, 0)
        ELSE IF level.side = SELL /\ bid # NONE
        THEN SellGuardLoop(_ceil_to_tick(Max(level.price, bid + TICK), TICK), bid,
                           guard_distance, 0)
        ELSE level.price
  IN Max(TICK, _format_price(price))

\* _align_price
_align_price(value, side, tick) ==
  IF tick <= 0 THEN value
  ELSE IF side = BUY THEN Max(tick, (value \div tick) * tick)
  ELSE (-((-value) \div tick)) * tick

\* _compute_relaunch_price: NONE for None.
_compute_relaunch_price(side, reference_price, layout) ==
  IF side = SELL
  THEN LET raw == Max(reference_price + layout.spacing, reference_price + TICK)
           capped == Min(raw, layout.upper_price)
       IN IF capped <= reference_price THEN NONE ELSE _align_price(capped, side, TICK)
  ELSE LET raw == Min(reference_price - layout.spacing, reference_price - TICK)
           capped == Max(raw, layout.lower_price)
       IN IF Abs(capped - reference_price) < TICK THEN NONE
          ELSE _align_price(capped, side, TICK)

\* The violation test of _enforce_maker_guard for one snapshot entry.
GuardViolated(side, price, bid, ask, maker_guard_ticks) ==
  LET guard_distance == Max(0, maker_guard_ticks) * TICK
  IN IF side = BUY /\ ask # NONE THEN ask - price <= guard_distance
     ELSE IF side = SELL /\ bid # NONE THEN price - bid <= guard_distance
     ELSE FALSE

\* _check_recenter: whether the mid is far enough from the grid center.
RecenterThresholdReached(mid, center, layout) ==
  LET span == layout.spacing * Max(1, layout.levels_per_side)
      threshold100 == IF cfg.recenter_threshold * span <= 0
                      THEN 100 * layout.spacing * 2
                      ELSE cfg.recenter_threshold * span
  IN ~ (100 * Abs(mid - center) < threshold100)

\* Ids in use: the keys of the order table and every id a task still holds.
UsedIds ==
  DOMAIN open_orders
  \cup { by_client_id[c] : c \in DOMAIN by_client_id }
  \cup UNION { { loc[t].snap[i].order_id : i \in 1..Len(loc[t].snap) } : t \in Tasks }
  \cup { loc[t].mv.order_id : t \in Tasks }
  \cup exchange

\* An id no live order has: the exchange's next id, or a new random one.  It is
\* larger than every id in use, so that the numeric order of the keys of
\* open_orders is the insertion order of the dict.
FreshId == 1 + (CHOOSE n \in UsedIds \cup {0} : \A m \in UsedIds \cup {0} : n >= m)

UsedStamps ==
  { c[2] : c \in DOMAIN by_client_id }
  \cup { open_orders[k].client_order_id[2] : k \in DOMAIN open_orders }
  \cup { loc[t].sub.client_id[2] : t \in Tasks }

\* int(time.time() * 1000) % 1_000_000 at a moment no tracked order was made.
FreshStamp == CHOOSE n \in 1..(Cardinality(UsedStamps) + 1) : n \notin UsedStamps

\* ---------------------------------------------------------- control flow
Booted == pc["main"] = "running"

At(t, label) == pc[t] = label /\ cur \in { t, NoTask }

Yields(label) == ~ (label \in Immediate \/ (label \in Stubbed /\ cfg.dry_run))

Jump(t, label, locals) ==
  /\ pc' = [pc EXCEPT ![t] = label]
  /\ loc' = [loc EXCEPT ![t] = locals]
  /\ cur' = IF Yields(label) THEN NoTask ELSE t

\* An exception leaves the handler: the stream loops log it and go on, the
\* soft recovery of the kill-switch catches it and falls back to
\* _restart_grid, every other task ends with it (and keeps the frame of the
\* body it ended in, raised.body).  async with releases _restart_lock on the
\* way out.
ThrowFrom(t, raised) ==
  LET soft == t = "kill" /\ loc[t].in_soft
      target == IF soft THEN "restart_begin"
                ELSE IF t \in { "market", "user" } THEN "idle" ELSE "dead"
      locals == IF soft
                THEN [NoLocals EXCEPT !.body = [NoBody EXCEPT !.kind = "restart",
                                                       !.reason = loc[t].body.reason]]
                ELSE IF target = "dead" THEN [NoLocals EXCEPT !.body = raised.body]
                ELSE NoLocals
  IN /\ Jump(t, target, locals)
     /\ restart_lock' = IF restart_lock = t THEN NoTask ELSE restart_lock

Anomalies == faults + reuse + flattens

Throw(t) == ThrowFrom(t, loc[t])

\* A signed REST call can fail only in live mode (the dry-run client returns a
\* stub); the public ticker call can fail in both.  
MayFail == ~ cfg.dry_run /\ Anomalies < MaxAnomalies
TickerMayFail == Anomalies < MaxAnomalies

\* The list another task iterates in _deploy_initial_orders stays the old
\* list object when grid_layout is replaced.
Freeze(locals) ==
  LET kept == IF locals.dep_alias
              THEN [locals EXCEPT !.dep_alias = FALSE, !.dep_levels = grid_layout.levels]
              ELSE locals
  IN IF kept.sub = NoSub THEN kept ELSE [kept EXCEPT !.sub.stale = TRUE]

JumpReplace(t, label, locals) ==
  /\ pc' = [pc EXCEPT ![t] = label]
  /\ loc' = [u \in Tasks |-> IF u = t THEN locals ELSE Freeze(loc[u])]
  /\ cur' = IF Yields(label) THEN NoTask ELSE t

Body(kind, reason, mid) == [NoBody EXCEPT !.kind = kind, !.reason = reason, !.mid = mid]

OrderRecord(level_index, side, price, quantity, client_order_id, order_id, status) ==
  [level_index |-> level_index, side |-> side, price |-> price, quantity |-> quantity,
   client_order_id |-> client_order_id, order_id |-> order_id, status |-> status]

\* ------------------------------------------------------------- bootstrap
\* _bootstrap up to the balance request: the initial book ticker.
BootTickerResponse ==
  /\ At("main", "boot_ticker_wait")
  /\ \E q \in BootTickers \cup (IF TickerMayFail THEN { << NONE, NONE >> } ELSE {}) :
       IF q[1] = NONE
       THEN /\ Throw("main")
            /\ faults' = faults + 1
            /\ order_error' = NoError
            /\ UNCHANGED << unit, position_held, unlocked_access, order_lock, recenter_aborted,
                            cfg, shutdown, exchange, best_bid, best_ask, grid_layout,
                            open_orders, by_client_id, grid_center, last_mid, market_stale,
                            user_stale, recenter_due, listen_key, events, reuse, flattens >>
       ELSE /\ best_bid' = q[1]
            /\ best_ask' = q[2]
            /\ Jump("main", "balance_wait",
                    [NoLocals EXCEPT !.body = Body("bootstrap", "", (q[1] + q[2]) \div 2)])
            /\ order_error' = NoError
            /\ UNCHANGED << unit, position_held, unlocked_access, order_lock, recenter_aborted,
                            cfg, shutdown, exchange, grid_layout, open_orders, by_client_id,
                            grid_center, last_mid, market_stale, user_stale, recenter_due,
                            listen_key, restart_lock, events, faults, reuse, flattens >>

\* The quantity of the MARKET BUY of _establish_base_position: the quantities
\* of the SELL levels, rounded up to the step (one quantity unit), at least
\* one step.
RECURSIVE SellQuantity(_)
SellQuantity(levels) ==
  IF levels = << >> THEN 0
  ELSE (IF Head(levels).side = SELL THEN Head(levels).quantity ELSE 0)
       + SellQuantity(Tail(levels))

BaseQuantity(levels) == Max(1, SellQuantity(levels))

\* ------------------------------------- layout and state replacement, base
\* _determine_levels_per_side answered; build_initial_state and build_grid
\* (bootstrap builds the layout first, recenter and restart the state first);
\* then _establish_base_position up to its market order.
BalanceResponse(t) ==
  /\ At(t, "balance_wait")
  /\ \E avail \in (IF cfg.dry_run THEN { cfg.dry_run_virtual_balance }
                   ELSE Balances \cup (IF MayFail THEN { NONE } ELSE {})) :
       LET b == loc[t].body
           layout == build_grid(b.mid, _determine_levels_per_side(b.mid, avail))
           locals == [NoLocals EXCEPT !.body = b, !.in_soft = loc[t].in_soft,
                                      !.dep_alias = TRUE,
                                      !.base_qty = IF layout.ok
                                                   THEN BaseQuantity(layout.levels)
                                                   ELSE 0]
       IN IF avail = NONE \/ (~ layout.ok /\ b.kind = "bootstrap")
          THEN /\ Throw(t)
               /\ faults' = IF avail = NONE THEN faults + 1 ELSE faults
               /\ order_error' = NoError
               /\ UNCHANGED << unit, position_held, unlocked_access, order_lock,
                               recenter_aborted, cfg, shutdown, exchange, best_bid, best_ask,
                               grid_layout, open_orders, by_client_id, grid_center, last_mid,
                               market_stale, user_stale, recenter_due, listen_key, events,
                               reuse, flattens >>
          ELSE /\ open_orders' = EmptyMap
               /\ by_client_id' = EmptyMap
               /\ grid_center' = b.mid
               /\ last_mid' = b.mid
               /\ market_stale' = FALSE
               /\ user_stale' = FALSE
               /\ IF layout.ok
                  THEN /\ grid_layout' = layout
                       /\ JumpReplace(t, IF cfg.dry_run THEN "deploy_loop" ELSE "base_wait",
                                      locals)
                       /\ UNCHANGED restart_lock
                  ELSE /\ UNCHANGED grid_layout
                       /\ Throw(t)
               /\ position_held' = 0
               /\ order_error' = NoError
               /\ UNCHANGED << unit, unlocked_access, order_lock, recenter_aborted, cfg,
                               shutdown, exchange, best_bid, best_ask, recenter_due, listen_key,
                               events, faults, reuse, flattens >>

\* _establish_base_position: the MARKET BUY acknowledged, or failed for good.
BaseResponse(t) ==
  /\ At(t, "base_wait")
  /\ \E ok \in (IF MayFail THEN BOOLEAN ELSE { TRUE }) :
       /\ IF ok
          THEN /\ Jump(t, "deploy_loop", [loc[t] EXCEPT !.base_ok = TRUE])
               /\ UNCHANGED restart_lock
          ELSE Throw(t)
       /\ faults' = IF ok THEN faults ELSE faults + 1
       /\ position_held' = IF ok THEN position_held + loc[t].base_qty ELSE position_held
  /\ order_error' = NoError
  /\ UNCHANGED << unit, unlocked_access, order_lock, recenter_aborted, cfg, shutdown, exchange,
                  best_bid, best_ask, grid_layout, open_orders, by_client_id, grid_center,
                  last_mid, market_stale, user_stale, recenter_due, listen_key, events, reuse,
                  flattens >>

\* The list _deploy_initial_orders iterates.
DeployList(t) == IF loc[t].dep_alias THEN grid_layout.levels ELSE loc[t].dep_levels

\* _deploy_initial_orders: the next level of the loop, or its end.
DeployLoop(t) ==
  /\ At(t, "deploy_loop")
  /\ IF loc[t].dep_pos >= Len(DeployList(t))
     THEN Jump(t, "body_end", loc[t])
     ELSE Jump(t, "ensure",
               [loc[t] EXCEPT !.dep_pos = @ + 1,
                              !.sub = [NoSub EXCEPT !.level = DeployList(t)[loc[t].dep_pos + 1]],
                              !.ret = "deploy_loop"])
  /\ OrderLockRegion(t, loc[t].dep_pos >= Len(DeployList(t)))
  /\ order_error' = NoError
  /\ UNCHANGED << unit, position_held, unlocked_access, recenter_aborted, cfg, shutdown,
                  exchange, best_bid, best_ask, grid_layout, open_orders, by_client_id,
                  grid_center, last_mid, market_stale, user_stale, recenter_due, listen_key,
                  restart_lock, events, faults, reuse, flattens >>

\* The end of a body: _last_recenter_time is stamped; bootstrap goes on to the
\* listen key, _restart_grid leaves its async with.
BodyEnd(t) ==
  /\ At(t, "body_end")
  /\ recenter_due' = FALSE
  /\ Jump(t, IF loc[t].body.kind = "bootstrap"
             THEN (IF cfg.dry_run THEN "running" ELSE "listenkey_wait")
             ELSE "idle",
          NoLocals)
  /\ restart_lock' = IF restart_lock = t THEN NoTask ELSE restart_lock
  /\ order_error' = NoError
  /\ UNCHANGED << unit, position_held, unlocked_access, order_lock, recenter_aborted, cfg,
                  shutdown, exchange, best_bid, best_ask, grid_layout, open_orders,
                  by_client_id, grid_center, last_mid, market_stale, user_stale, listen_key,
                  events, faults, reuse, flattens >>

\* new_listen_key answered: at the end of bootstrap, or after listenKeyExpired.
\* The answer may lack the key (data.get("listenKey", "")).
ListenKeyResponse(t) ==
  /\ At(t, "listenkey_wait")
  /\ \E out \in { "ok" } \cup (IF MayFail THEN { "empty", "error" } ELSE {}) :
       /\ IF out = "error"
          THEN Throw(t)
          ELSE /\ Jump(t, IF t = "main" THEN "running" ELSE "idle", NoLocals)
               /\ UNCHANGED restart_lock
       /\ listen_key' = IF out = "error" THEN listen_key ELSE out = "ok"
       /\ faults' = IF out = "ok" THEN faults ELSE faults + 1
  /\ order_error' = NoError
  /\ UNCHANGED << unit, position_held, unlocked_access, order_lock, recenter_aborted, cfg,
                  shutdown, exchange, best_bid, best_ask, grid_layout, open_orders,
                  by_client_id, grid_center, last_mid, market_stale, user_stale, recenter_due,
                  events, reuse, flattens >>

\* ------------------------------------------------------ order submission
\* A payload that never carries reduceOnly; the base-position property tells
\* it from the real one.
ReduceOnlyNever(side) == FALSE

\* Whether the payload of _submit_level_order carries reduceOnly=true.
ReduceOnly(side) == side = SELL

\* _ensure_level_has_order and _submit_level_order up to the new_order call:
\* the pre-checks, the maker guard, the client id, the payload.
Ensure(t) ==
  /\ At(t, "ensure")
  /\ LET level == loc[t].sub.level
     IN IF _order_exists(open_orders, level.side, level.price)
        THEN /\ Jump(t, loc[t].ret, [loc[t] EXCEPT !.sub = NoSub])
             /\ UNCHANGED reuse
        ELSE \E stamp \in { FreshStamp } \cup
                          (IF Anomalies < MaxAnomalies
                           THEN { c[2] : c \in { d \in DOMAIN by_client_id : d[1] = level.index } }
                           ELSE {}) :
               /\ Jump(t, "submit_wait",
                       [loc[t] EXCEPT !.sub =
                          [level |-> level,
                           price |-> _adjust_price_for_guard(level, best_bid, best_ask,
                                                             cfg.maker_guard_ticks),
                           quantity |-> level.quantity,
                           client_id |-> << level.index, stamp >>,
                           reduce_only |-> ReduceOnly(level.side),
                           stale |-> loc[t].sub.stale]])
               /\ reuse' = IF stamp = FreshStamp THEN reuse ELSE reuse + 1
  /\ unlocked_access' =
       unlocked_access \cup { "_ensure_level_has_order" }
       \cup (IF _order_exists(open_orders, loc[t].sub.level.side, loc[t].sub.level.price)
             THEN {} ELSE { "_submit_level_order" })
  /\ OrderLockRegion(t, ~ _order_exists(open_orders, loc[t].sub.level.side,
                                         loc[t].sub.level.price))
  /\ order_error' = NoError
  /\ UNCHANGED << unit, position_held, recenter_aborted, cfg, shutdown, exchange, best_bid,
                  best_ask, grid_layout, open_orders, by_client_id, grid_center, last_mid,
                  market_stale, user_stale, recenter_due, listen_key, restart_lock, events,
                  faults, flattens >>

\* The answers of a new_order that always goes to the exchange, dry run or
\* not; the dry-run property tells it from the real one.
SubmitOutcomesSigned ==
  { [kind |-> "ok", id |-> FreshId] }
  \cup (IF Anomalies < MaxAnomalies
        THEN { [kind |-> "dup", id |-> 0], [kind |-> "error", id |-> 0] } ELSE {})

\* What new_order may come back with: an acknowledgement carrying an order id
\* (the exchange issues a new one; the dry-run stub draws
\* secrets.randbelow(1_000_000_000), which may be a key of open_orders), the
\* duplicate-order error -2011, or another error.
SubmitOutcomes ==
  { [kind |-> "ok", id |-> FreshId] }
  \cup (IF cfg.dry_run /\ Anomalies < MaxAnomalies
        THEN { [kind |-> "ok", id |-> k] : k \in DOMAIN open_orders }
        ELSE {})
  \cup (IF MayFail THEN { [kind |-> "dup", id |-> 0], [kind |-> "error", id |-> 0] } ELSE {})

\* The exchange's side of a new_order: an accepted order is live; a
\* rejection as duplicate (-2011) either names an order that was already
\* live, or follows an attempt of _with_retry that the exchange accepted
\* while its answer was an error.  The dry-run client reaches no exchange.
ExchangeAfterSubmit(out) ==
  IF cfg.dry_run \/ out.kind = "error" THEN { exchange }
  ELSE IF out.kind = "ok" THEN { exchange \cup { out.id } }
  ELSE { exchange, exchange \cup { FreshId } }

\* A submission that records the order also when new_order came back with
\* -2011; the duplicate-order property tells it from the real one.
TrackedAfterSubmitAlways(out, record) ==
  IF out.kind = "error" THEN st_now ELSE track_order(st_now, out.id, record)

\* The maps after the answer of new_order: only an acknowledgement reaches
\* track_order, on the state the bot holds at that moment.
TrackedAfterSubmit(out, record) ==
  IF out.kind = "ok" THEN track_order(st_now, out.id, record) ELSE st_now

\* _submit_level_order from the answer of new_order on.
SubmitResponse(t) ==
  /\ At(t, "submit_wait")
  /\ \E out \in SubmitOutcomes :
       LET sub == loc[t].sub
           record == OrderRecord(sub.level.index, sub.level.side, sub.price, sub.quantity,
                                 sub.client_id, out.id, "NEW")
           st == TrackedAfterSubmit(out, record)
       IN /\ open_orders' = st.open_orders
          /\ by_client_id' = st.by_client_id
          /\ IF out.kind = "error" THEN Throw(t)
             ELSE /\ Jump(t, loc[t].ret, [loc[t] EXCEPT !.sub = NoSub])
                  /\ UNCHANGED restart_lock
          /\ faults' = IF out.kind = "ok" THEN faults ELSE faults + 1
          /\ reuse' = IF out.kind = "ok" /\ out.id # FreshId THEN reuse + 1 ELSE reuse
          /\ exchange' \in ExchangeAfterSubmit(out)
          /\ order_error' = IF out.kind = "dup" THEN "-2011"
                             ELSE IF out.kind = "error" THEN "other" ELSE NoError
          /\ OrderLockRegion(t, out.kind = "ok")
  /\ UNCHANGED << unit, position_held, unlocked_access, recenter_aborted, cfg, shutdown,
                  best_bid, best_ask, grid_layout, grid_center, last_mid, market_stale,
                  user_stale, recenter_due, listen_key, events, flattens >>

\* ---------------------------------------------------------- market events
\* list(self.state.open_orders.items()) as _enforce_maker_guard reads it: the
\* loop uses the id, the side and the price of each entry.
RECURSIVE SnapshotOf(_, _)
SnapshotOf(oo, keys) ==
  IF keys = {} THEN << >>
  ELSE LET k == CHOOSE x \in keys : \A y \in keys : x <= y
       IN << [order_id |-> k, side |-> oo[k].side, price |-> oo[k].price] >>
          \o SnapshotOf(oo, keys \ {k})

\* _process_book_ticker without update_market_timestamp; the kill-switch
\* property tells it from the real one.
ProcessBookTickerNoStamp(t, bid, ask, locals) ==
  /\ best_bid' = bid
  /\ best_ask' = ask
  /\ UNCHANGED market_stale
  /\ last_mid' = (bid + ask) \div 2
  /\ Jump(t, "guard_loop",
          [locals EXCEPT !.snap = SnapshotOf(open_orders, DOMAIN open_orders),
                         !.tick_mid = (bid + ask) \div 2])

\* _process_book_ticker up to the first suspension point of the guard pass.
ProcessBookTicker(t, bid, ask, locals) ==
  /\ best_bid' = bid
  /\ best_ask' = ask
  /\ market_stale' = FALSE
  /\ last_mid' = (bid + ask) \div 2
  /\ Jump(t, "guard_loop",
          [locals EXCEPT !.snap = SnapshotOf(open_orders, DOMAIN open_orders),
                         !.tick_mid = (bid + ask) \div 2])

\* _market_stream_loop: one bookTicker message of the configured symbol.
MarketMessage ==
  /\ Booted
  /\ At("market", "idle")
  /\ events < MaxEvents
  /\ events' = events + 1
  /\ \E q \in Tickers : ProcessBookTicker("market", q[1], q[2], NoLocals)
  /\ OrderLockRegion("market", TRUE)
  /\ order_error' = NoError
  /\ UNCHANGED << unit, position_held, unlocked_access, recenter_aborted, cfg, shutdown,
                  exchange, grid_layout, open_orders, by_client_id, grid_center, user_stale,
                  recenter_due, listen_key, restart_lock, faults, reuse, flattens >>

\* _enforce_maker_guard: one entry of the snapshot, and _move_order up to its
\* cancel_order call.
GuardLoop(t) ==
  /\ At(t, "guard_loop")
  /\ IF loc[t].snap = << >>
     THEN Jump(t, "check_recenter", loc[t]) /\ UNCHANGED restart_lock
     ELSE LET h == Head(loc[t].snap)
              rest == [loc[t] EXCEPT !.snap = Tail(loc[t].snap)]
          IN IF ~ GuardViolated(h.side, h.price, best_bid, best_ask, cfg.maker_guard_ticks)
                \/ h.order_id \notin DOMAIN open_orders
             THEN Jump(t, "guard_loop", rest) /\ UNCHANGED restart_lock
             ELSE LET index == open_orders[h.order_id].level_index
                  IN IF index >= Len(grid_layout.levels)
                     THEN Throw(t)
                     ELSE /\ Jump(t, "cancel_wait",
                                  [rest EXCEPT !.mv = [order_id |-> h.order_id,
                                                       side |-> h.side,
                                                       level |-> grid_layout.levels[index + 1]]])
                          /\ UNCHANGED restart_lock
  /\ OrderLockRegion(t, loc[t].snap # << >>
                         /\ GuardViolated(Head(loc[t].snap).side, Head(loc[t].snap).price,
                                          best_bid, best_ask, cfg.maker_guard_ticks))
  /\ order_error' = NoError
  /\ UNCHANGED << unit, position_held, unlocked_access, recenter_aborted, cfg, shutdown,
                  exchange, best_bid, best_ask, grid_layout, open_orders, by_client_id,
                  grid_center, last_mid, market_stale, user_stale, recenter_due, listen_key,
                  events, faults, reuse, flattens >>

\* What cancel_order may come back with: cancelled, unknown order (-2011,
\* -2013), or another error.  An order the controller has dropped meanwhile is
\* gone from the exchange (it was cancelled, filled or swept by cancel-all),
\* and the exchange answers unknown order.
CancelOutcomes(order_id) ==
  (IF order_id \in DOMAIN open_orders THEN { "ok" } ELSE { "gone" })
  \cup (IF MayFail THEN { "unknown", "error" } ELSE {})

\* The maps after the answer of cancel_order: the record is dropped unless
\* the call failed with an error other than -2011 and -2013.
MapsAfterCancel(out, order_id) ==
  IF out = "error" THEN st_now ELSE drop_order(st_now, order_id)

\* _move_order from the answer of cancel_order on.
CancelResponse(t) ==
  /\ At(t, "cancel_wait")
  /\ \E out \in CancelOutcomes(loc[t].mv.order_id) :
       LET mv == loc[t].mv
           st == MapsAfterCancel(out, mv.order_id)
       IN /\ open_orders' = st.open_orders
          /\ order_error' \in IF out \in { "unknown", "gone" } THEN { "-2011", "-2013" }
                                ELSE IF out = "error" THEN { "other" } ELSE { NoError }
          /\ by_client_id' = st.by_client_id
          /\ faults' = IF out \in { "ok", "gone" } THEN faults ELSE faults + 1
          /\ exchange' = IF out = "error" THEN exchange ELSE exchange \ { mv.order_id }
          /\ OrderLockRegion(t, out # "error")
          /\ IF out = "error" THEN Throw(t)
             ELSE /\ UNCHANGED restart_lock
                  /\ IF out \in { "unknown", "gone" }
                     THEN Jump(t, "guard_loop", [loc[t] EXCEPT !.mv = NoMove])
                     ELSE Jump(t, "ensure",
                               [loc[t] EXCEPT
                                  !.mv = NoMove,
                                  !.sub = [NoSub EXCEPT !.level =
                                             GridLevel(mv.level.index, mv.side,
                                                       mv.level.price, mv.level.quantity)],
                                  !.ret = "guard_loop"])
  /\ UNCHANGED << unit, position_held, unlocked_access, recenter_aborted, cfg, shutdown,
                  best_bid, best_ask, grid_layout, grid_center, last_mid, market_stale,
                  user_stale, recenter_due, listen_key, events, reuse, flattens >>

\* A recenter check without the 300 s debounce: it starts a recenter as soon
\* as the threshold is reached; the debounce property tells it from the real
\* one.
CheckRecenterNoDebounce(t) ==
  /\ At(t, "check_recenter")
  /\ IF RecenterThresholdReached(loc[t].tick_mid, grid_center, grid_layout)
     THEN Jump(t, "cancel_all_wait",
               [NoLocals EXCEPT
                  !.body = Body("recenter", loc[t].body.reason, loc[t].tick_mid),
                  !.in_soft = loc[t].in_soft])
     ELSE Jump(t, "idle", NoLocals)
  /\ order_error' = NoError
  /\ UNCHANGED << unit, position_held, unlocked_access, order_lock, recenter_aborted, cfg,
                  shutdown, exchange, best_bid, best_ask, grid_layout, open_orders,
                  by_client_id, grid_center, last_mid, market_stale, user_stale, recenter_due,
                  listen_key, restart_lock, events, faults, reuse, flattens >>

\* _check_recenter, and _recenter up to its cancel_all_orders call.  The time
\* that passed since the last recenter may have reached the 300 s debounce.
CheckRecenter(t) ==
  /\ At(t, "check_recenter")
  /\ IF RecenterThresholdReached(loc[t].tick_mid, grid_center, grid_layout)
     THEN \E due \in { recenter_due, TRUE } :
            /\ recenter_due' = due
            /\ IF due
               THEN Jump(t, "cancel_all_wait",
                         [NoLocals EXCEPT
                            !.body = Body("recenter", loc[t].body.reason, loc[t].tick_mid),
                            !.in_soft = loc[t].in_soft])
               ELSE Jump(t, "idle", NoLocals)
     ELSE /\ UNCHANGED recenter_due
          /\ Jump(t, "idle", NoLocals)
  /\ order_error' = NoError
  /\ UNCHANGED << unit, position_held, unlocked_access, order_lock, recenter_aborted, cfg,
                  shutdown, exchange, best_bid, best_ask, grid_layout, open_orders,
                  by_client_id, grid_center, last_mid, market_stale, user_stale, listen_key,
                  restart_lock, events, faults, reuse, flattens >>

\* ------------------------------------------------- recenter / restart body
\* _cancel_all_orders from the answer on, and _flatten_position up to its
\* get_position_amount call.  _restart_grid passes ignore_errors.
CancelAllResponse(t) ==
  /\ At(t, "cancel_all_wait")
  /\ \E ok \in (IF MayFail THEN BOOLEAN ELSE { TRUE }) :
       /\ faults' = IF ok THEN faults ELSE faults + 1
       /\ exchange' = IF ok THEN {} ELSE exchange
       /\ OrderLockRegion(t, ok \/ loc[t].body.kind = "restart")
       /\ IF ok \/ loc[t].body.kind = "restart"
          THEN /\ open_orders' = EmptyMap
               /\ by_client_id' = EmptyMap
               /\ Jump(t, "position_wait", loc[t])
               /\ UNCHANGED restart_lock
          ELSE /\ UNCHANGED << open_orders, by_client_id >>
               /\ Throw(t)
  /\ order_error' = NoError
  /\ UNCHANGED << unit, position_held, unlocked_access, recenter_aborted, cfg, shutdown,
                  best_bid, best_ask, grid_layout, grid_center, last_mid, market_stale,
                  user_stale, recenter_due, listen_key, events, reuse, flattens >>

\* What get_position_amount may report: flat (|position| < step_size), an
\* open position (live only), or an error.
PositionOutcomes(open_allowed) ==
  { "flat" }
  \cup (IF ~ cfg.dry_run /\ open_allowed THEN { "open" } ELSE {})
  \cup (IF MayFail THEN { "error" } ELSE {})

\* _flatten_position from the first position query on, up to the MARKET
\* reduce-only order.
PositionResponse(t) ==
  /\ At(t, "position_wait")
  /\ \E out \in PositionOutcomes(Anomalies < MaxAnomalies) :
       /\ faults' = IF out = "error" THEN faults + 1 ELSE faults
       /\ flattens' = IF out = "open" THEN flattens + 1 ELSE flattens
       /\ IF out = "error" THEN Throw(t)
          ELSE /\ UNCHANGED restart_lock
               /\ IF out = "flat"
                  THEN Jump(t, "balance_wait", [loc[t] EXCEPT !.body.flat_seen = TRUE])
                  ELSE Jump(t, "flatten_wait", [loc[t] EXCEPT !.body.flat_seen = FALSE])
  /\ order_error' = NoError
  /\ UNCHANGED << unit, position_held, unlocked_access, order_lock, recenter_aborted, cfg,
                  shutdown, exchange, best_bid, best_ask, grid_layout, open_orders,
                  by_client_id, grid_center, last_mid, market_stale, user_stale, recenter_due,
                  listen_key, events, reuse >>

\* The flatten order acknowledged, or failed for good.
FlattenResponse(t) ==
  /\ At(t, "flatten_wait")
  /\ \E ok \in (IF MayFail THEN BOOLEAN ELSE { TRUE }) :
       /\ faults' = IF ok THEN faults ELSE faults + 1
       /\ IF ok
          THEN /\ Jump(t, "poll_wait", [loc[t] EXCEPT !.body.flatten_sent = TRUE])
               /\ UNCHANGED restart_lock
          ELSE Throw(t)
  /\ order_error' = NoError
  /\ UNCHANGED << unit, position_held, unlocked_access, order_lock, recenter_aborted, cfg,
                  shutdown, exchange, best_bid, best_ask, grid_layout, open_orders,
                  by_client_id, grid_center, last_mid, market_stale, user_stale, recenter_due,
                  listen_key, events, reuse, flattens >>

\* A wait loop that returns after its last poll instead of raising; the
\* flatten property tells it from the real one.
PollResponseGivingUp(t) ==
  /\ At(t, "poll_wait")
  /\ \E out \in PositionOutcomes(TRUE) :
       /\ faults' = IF out = "error" THEN faults + 1 ELSE faults
       /\ IF out = "error" THEN Throw(t)
          ELSE /\ Jump(t, IF out = "flat" \/ loc[t].body.polls + 1 >= MAX_FLATTEN_ATTEMPTS
                          THEN "balance_wait" ELSE "poll_wait",
                       [loc[t] EXCEPT !.body.flat_seen = (out = "flat"),
                                      !.body.polls = @ + 1])
               /\ UNCHANGED restart_lock
  /\ order_error' = NoError
  /\ UNCHANGED << unit, position_held, unlocked_access, order_lock, recenter_aborted, cfg,
                  shutdown, exchange, best_bid, best_ask, grid_layout, open_orders,
                  by_client_id, grid_center, last_mid, market_stale, user_stale, recenter_due,
                  listen_key, events, reuse, flattens >>

\* _wait_for_position_flattened: one sleep and one poll.
PollResponse(t) ==
  /\ At(t, "poll_wait")
  /\ \E out \in PositionOutcomes(TRUE) :
       /\ faults' = IF out = "error" THEN faults + 1 ELSE faults
       /\ recenter_aborted' = (recenter_aborted
                                \/ (/\ out = "open"
                                    /\ loc[t].body.polls + 1 >= MAX_FLATTEN_ATTEMPTS
                                    /\ loc[t].body.kind = "recenter"))
       /\ IF out = "error" THEN Throw(t)
          ELSE IF out = "flat"
          THEN /\ Jump(t, "balance_wait",
                       [loc[t] EXCEPT !.body.flat_seen = TRUE, !.body.polls = @ + 1])
               /\ UNCHANGED restart_lock
          ELSE IF loc[t].body.polls + 1 >= MAX_FLATTEN_ATTEMPTS
          THEN ThrowFrom(t, [loc[t] EXCEPT !.body.polls = @ + 1])
          ELSE /\ Jump(t, "poll_wait", [loc[t] EXCEPT !.body.polls = @ + 1])
               /\ UNCHANGED restart_lock
  /\ order_error' = NoError
  /\ UNCHANGED << unit, position_held, unlocked_access, order_lock, cfg, shutdown, exchange,
                  best_bid, best_ask, grid_layout, open_orders, by_client_id, grid_center,
                  last_mid, market_stale, user_stale, recenter_due, listen_key, events, reuse,
                  flattens >>

\* _restart_grid: async with self._restart_lock, then the ticker request.
RestartBegin(t) ==
  /\ At(t, "restart_begin")
  /\ IF restart_lock = NoTask
     THEN /\ restart_lock' = t
          /\ Jump(t, "restart_ticker_wait", loc[t])
     ELSE /\ UNCHANGED restart_lock
          /\ Jump(t, "lock_wait", loc[t])
  /\ order_error' = NoError
  /\ UNCHANGED << unit, position_held, unlocked_access, order_lock, recenter_aborted, cfg,
                  shutdown, exchange, best_bid, best_ask, grid_layout, open_orders,
                  by_client_id, grid_center, last_mid, market_stale, user_stale, recenter_due,
                  listen_key, events, faults, reuse, flattens >>

\* The waiter is woken when the holder releases _restart_lock.
LockAcquire(t) ==
  /\ At(t, "lock_wait")
  /\ restart_lock = NoTask
  /\ restart_lock' = t
  /\ Jump(t, "restart_ticker_wait", loc[t])
  /\ order_error' = NoError
  /\ UNCHANGED << unit, position_held, unlocked_access, order_lock, recenter_aborted, cfg,
                  shutdown, exchange, best_bid, best_ask, grid_layout, open_orders,
                  by_client_id, grid_center, last_mid, market_stale, user_stale, recenter_due,
                  listen_key, events, faults, reuse, flattens >>

\* _restart_grid: the ticker answered (a RestAPIError or a zero quote falls
\* back to state.last_mid), up to the cancel_all_orders call.
RestartTickerResponse(t) ==
  /\ At(t, "restart_ticker_wait")
  /\ \E q \in Tickers \cup (IF TickerMayFail THEN { << NONE, NONE >> } ELSE {}) :
       /\ faults' = IF q[1] = NONE THEN faults + 1 ELSE faults
       /\ Jump(t, "cancel_all_wait",
               [loc[t] EXCEPT !.body.mid = IF q[1] = NONE THEN last_mid
                                           ELSE (q[1] + q[2]) \div 2])
  /\ order_error' = NoError
  /\ UNCHANGED << unit, position_held, unlocked_access, order_lock, recenter_aborted, cfg,
                  shutdown, exchange, best_bid, best_ask, grid_layout, open_orders,
                  by_client_id, grid_center, last_mid, market_stale, user_stale, recenter_due,
                  listen_key, restart_lock, events, reuse, flattens >>

\* ------------------------------------------------------------ kill-switch
\* _kill_switch_loop: one timer tick at which a stream is stale, and
\* _handle_stall / _attempt_soft_recovery up to their first REST call.  The
\* time that passed since the last tick may have made either stream stale.
KillTick ==
  /\ Booted
  /\ At("kill", "idle")
  /\ events < MaxEvents
  /\ events' = events + 1
  /\ \E ms \in { market_stale, TRUE },
        us \in (IF cfg.dry_run THEN { user_stale } ELSE { user_stale, TRUE }) :
       /\ ms \/ us
       /\ market_stale' = ms
       /\ user_stale' = us
       /\ IF ms
          THEN Jump("kill", "soft_ticker_wait",
                    [NoLocals EXCEPT !.in_soft = TRUE, !.body.reason = "market data stalled"])
          ELSE Jump("kill", IF listen_key THEN "keepalive_wait" ELSE "soft_newkey_wait",
                    [NoLocals EXCEPT !.in_soft = TRUE, !.body.reason = "user data stalled"])
  /\ order_error' = NoError
  /\ UNCHANGED << unit, position_held, unlocked_access, order_lock, recenter_aborted, cfg,
                  shutdown, exchange, best_bid, best_ask, grid_layout, open_orders,
                  by_client_id, grid_center, last_mid, recenter_due, listen_key, restart_lock,
                  faults, reuse, flattens >>

\* _attempt_soft_recovery("market data stalled") from the ticker answer on:
\* a usable quote is injected through _process_book_ticker; a zero quote or
\* an exception makes the recovery fail, and _handle_stall restarts the grid.
SoftTickerResponse ==
  /\ At("kill", "soft_ticker_wait")
  /\ \E q \in Tickers \cup (IF TickerMayFail THEN { << 0, 0 >>, << NONE, NONE >> } ELSE {}) :
       IF q[1] = NONE \/ q[1] = 0
       THEN /\ faults' = faults + 1
            /\ Jump("kill", "restart_begin",
                    [NoLocals EXCEPT !.body = Body("restart", loc["kill"].body.reason, 0)])
            /\ UNCHANGED << best_bid, best_ask, market_stale, last_mid, order_lock >>
       ELSE /\ UNCHANGED faults
            /\ OrderLockRegion("kill", TRUE)
            /\ ProcessBookTicker("kill", q[1], q[2], loc["kill"])
  /\ order_error' = NoError
  /\ UNCHANGED << unit, position_held, unlocked_access, recenter_aborted, cfg, shutdown,
                  exchange, grid_layout, open_orders, by_client_id, grid_center, user_stale,
                  recenter_due, listen_key, restart_lock, events, reuse, flattens >>

\* _attempt_soft_recovery("user data stalled") from the answer of
\* keepalive_listen_key or new_listen_key on.
UserRecoveryResponse ==
  /\ pc["kill"] \in { "keepalive_wait", "soft_newkey_wait" }
  /\ cur \in { "kill", NoTask }
  /\ \E ok \in (IF MayFail THEN BOOLEAN ELSE { TRUE }) :
       /\ faults' = IF ok THEN faults ELSE faults + 1
       /\ user_stale' = IF ok THEN FALSE ELSE user_stale
       /\ listen_key' = IF ok THEN TRUE ELSE listen_key
       /\ IF ok THEN Jump("kill", "idle", NoLocals)
          ELSE Jump("kill", "restart_begin",
                    [NoLocals EXCEPT !.body = Body("restart", loc["kill"].body.reason, 0)])
  /\ order_error' = NoError
  /\ UNCHANGED << unit, position_held, unlocked_access, order_lock, recenter_aborted, cfg,
                  shutdown, exchange, best_bid, best_ask, grid_layout, open_orders,
                  by_client_id, grid_center, last_mid, market_stale, recenter_due, restart_lock,
                  events, reuse, flattens >>

\* ------------------------------------------------------------ maintenance
\* The reason _maintenance_loop restarts the grid with, "" when it does not.
MaintenanceReason(oo) ==
  IF DOMAIN oo = {} THEN "maintenance-empty"
  ELSE IF ~ \E k \in DOMAIN oo : oo[k].side = SELL THEN "maintenance-missing-sells"
  ELSE IF ~ \E k \in DOMAIN oo : oo[k].side = BUY THEN "maintenance-missing-buys"
  ELSE ""

\* _maintenance_loop: one maintenance check that finds the grid empty or
\* one-sided.
MaintTick ==
  /\ Booted
  /\ At("maint", "idle")
  /\ events < MaxEvents
  /\ MaintenanceReason(open_orders) # ""
  /\ events' = events + 1
  /\ Jump("maint", "restart_begin",
          [NoLocals EXCEPT !.body = Body("restart", MaintenanceReason(open_orders), 0)])
  /\ OrderLockRegion("maint", TRUE)
  /\ order_error' = NoError
  /\ UNCHANGED << unit, position_held, unlocked_access, recenter_aborted, cfg, shutdown,
                  exchange, best_bid, best_ask, grid_layout, open_orders, by_client_id,
                  grid_center, last_mid, market_stale, user_stale, recenter_due, listen_key,
                  restart_lock, faults, reuse, flattens >>

\* ------------------------------------------------------------ user events
\* The order statuses after which an order is no longer live on the exchange.
TerminalStatuses == { "FILLED", "CANCELED", "EXPIRED", "REJECTED" }

\* (X, x) of the ORDER_TRADE_UPDATE events the user stream delivers.
EventKinds ==
  { << "NEW", "NEW" >>, << "PARTIALLY_FILLED", "TRADE" >>, << "FILLED", "TRADE" >>,
    << "FILLED", "CALCULATED" >>, << "CANCELED", "CANCELED" >>, << "EXPIRED", "EXPIRED" >>,
    << "REJECTED", "REJECTED" >> }

\* The key of the record _handle_order_trade resolves an event to: by client
\* id first, by order id second; 0 when there is none.
ResolveRecord(st, c, i) ==
  IF get_by_client_id(st, c) # 0 THEN get_by_client_id(st, c)
  ELSE IF i # 0 /\ i \in DOMAIN st.open_orders THEN i
  ELSE 0

\* The layout after the refill level is written into its slot, or appended.
WriteLevel(layout, stored_index, side, price, quantity) ==
  LET n == Len(layout.levels)
      target_index == IF 0 <= stored_index /\ stored_index < n THEN stored_index ELSE n
      new_level == GridLevel(target_index, side, price, quantity)
  IN [layout EXCEPT !.levels = IF target_index < n
                               THEN [layout.levels EXCEPT ![target_index + 1] = new_level]
                               ELSE Append(layout.levels, new_level)]

\* A handler that treats every trade as the order's last; the partial-fill
\* property tells it from the real one.
FillCompletesOnAnyTrade(X, x) == X \in { "PARTIALLY_FILLED", "FILLED" } /\ x = "TRADE"

\* The events after which _handle_order_trade drops the record and refills:
\* a trade that fills the order completely.
FillCompletes(X, x) == X = "FILLED" /\ x = "TRADE"

\* The region of _handle_order_trade under the order-lock: the maps and the
\* layout after the event, and the level to refill (NoLevel when none).
_handle_order_trade(st, layout, c, i, X, S, x) ==
  LET k == ResolveRecord(st, c, i)
      unchanged == [open_orders |-> st.open_orders, by_client_id |-> st.by_client_id,
                    layout |-> layout, respawn |-> NoLevel]
  IN IF k = 0 THEN unchanged
     ELSE LET oo1 == [st.open_orders EXCEPT ![k].order_id = IF i # 0 THEN i ELSE @,
                                              ![k].status = X]
              st1 == [open_orders |-> oo1, by_client_id |-> st.by_client_id]
              record == oo1[k]
              dropped == drop_order(st1, IF record.order_id # 0 THEN record.order_id ELSE i)
              opposite_side == IF S = BUY THEN SELL ELSE BUY
              target_price == _compute_relaunch_price(opposite_side, record.price, layout)
              n == Len(layout.levels)
              target_index == IF 0 <= record.level_index /\ record.level_index < n
                              THEN record.level_index ELSE n
          IN IF X \in { "CANCELED", "EXPIRED", "REJECTED" }
             THEN [unchanged EXCEPT !.open_orders = dropped.open_orders,
                                    !.by_client_id = dropped.by_client_id]
             ELSE IF FillCompletes(X, x)
             THEN [open_orders |-> dropped.open_orders,
                   by_client_id |-> dropped.by_client_id,
                   layout |-> IF target_price = NONE THEN layout
                              ELSE WriteLevel(layout, record.level_index, opposite_side,
                                              target_price, record.quantity),
                   respawn |-> IF target_price = NONE THEN NoLevel
                               ELSE GridLevel(target_index, opposite_side, target_price,
                                              record.quantity)]
             ELSE [unchanged EXCEPT !.open_orders = oo1]

\* _handle_user_event for one ORDER_TRADE_UPDATE about an order the bot
\* tracks, up to the refill's new_order call.
OrderTradeUpdate ==
  /\ Booted
  /\ ~ cfg.dry_run
  /\ listen_key
  /\ At("user", "idle")
  /\ events < MaxEvents
  /\ events' = events + 1
  /\ user_stale' = FALSE
  /\ \E k \in DOMAIN open_orders, kind \in EventKinds :
       LET r == _handle_order_trade(st_now, grid_layout, open_orders[k].client_order_id, k,
                                    kind[1], open_orders[k].side, kind[2])
           rec == open_orders[ResolveRecord(st_now, open_orders[k].client_order_id, k)]
       IN /\ open_orders' = r.open_orders
          /\ by_client_id' = r.by_client_id
          /\ grid_layout' = r.layout
          /\ unlocked_access' = unlocked_access
                                 \cup (IF r.respawn # NoLevel
                                       THEN { "_handle_order_trade" } ELSE {})
          /\ exchange' = IF kind[1] \in TerminalStatuses THEN exchange \ { k }
                          ELSE exchange
          /\ position_held' = IF kind[1] # "FILLED" THEN position_held
                               ELSE IF open_orders[k].side = BUY
                               THEN position_held + open_orders[k].quantity
                               ELSE position_held - open_orders[k].quantity
          /\ IF r.respawn # NoLevel
                /\ ~ _order_exists(r.open_orders, r.respawn.side, r.respawn.price)
             THEN Jump("user", "ensure",
                       [NoLocals EXCEPT
                          !.sub = [NoSub EXCEPT !.level = r.respawn],
                          !.ret = "idle",
                          !.fill = [order_id |-> k, side |-> rec.side, price |-> rec.price,
                                    quantity |-> rec.quantity,
                                    level_index |-> rec.level_index,
                                    count |-> Cardinality(DOMAIN open_orders)]])
             ELSE Jump("user", "idle", NoLocals)
  /\ OrderLockRegion("user", TRUE)
  /\ order_error' = NoError
  /\ UNCHANGED << unit, recenter_aborted, cfg, shutdown, best_bid, best_ask, grid_center,
                  last_mid, market_stale, recenter_due, listen_key, restart_lock, faults, reuse,
                  flattens >>

\* _handle_user_event for listenKeyExpired, up to the new_listen_key call.
ListenKeyExpired ==
  /\ Booted
  /\ ~ cfg.dry_run
  /\ listen_key
  /\ At("user", "idle")
  /\ events < MaxEvents
  /\ events' = events + 1
  /\ user_stale' = FALSE
  /\ Jump("user", "listenkey_wait", NoLocals)
  /\ order_error' = NoError
  /\ UNCHANGED << unit, position_held, unlocked_access, order_lock, recenter_aborted, cfg,
                  shutdown, exchange, best_bid, best_ask, grid_layout, open_orders,
                  by_client_id, grid_center, last_mid, market_stale, recenter_due, listen_key,
                  restart_lock, faults, reuse, flattens >>

\* ---------------------------------------------------------------- shutdown
\* The child tasks run() created: the user stream only when live.
Children(created) ==
  IF ~ created THEN {}
  ELSE { "market", "kill", "maint" } \cup (IF cfg.dry_run THEN {} ELSE { "user" })

\* _shutdown: every child task is cancelled, then awaited with only
\* CancelledError suppressed, so the exception of a child that had ended with
\* one is raised again and nothing after the loop runs; otherwise the listen
\* key is closed when live and held, and the REST client is closed.
_shutdown(created) ==
  LET raised == \E t \in Children(created) : pc[t] = "dead"
  IN /\ shutdown' = [ran |-> TRUE,
                     key_close_sent |-> ~ raised /\ ~ cfg.dry_run /\ listen_key,
                     transport_closed |-> ~ raised]
     /\ pc' = [t \in Tasks |->
                 IF t \in Children(created) /\ pc[t] # "dead" THEN "cancelled"
                 ELSE IF t = "main" /\ created THEN "stopped" ELSE pc[t]]
     /\ loc' = [t \in Tasks |-> IF pc[t] = "dead" THEN loc[t] ELSE NoLocals]
     /\ cur' = NoTask
     /\ restart_lock' = NoTask

\* request_stop while run() waits on the stop event: the finally clause of
\* run() calls _shutdown.
RequestStop ==
  /\ Booted
  /\ cur = NoTask
  /\ ~ shutdown.ran
  /\ events < MaxEvents
  /\ events' = events + 1
  /\ _shutdown(TRUE)
  /\ order_error' = NoError
  /\ UNCHANGED << unit, position_held, unlocked_access, order_lock, recenter_aborted, cfg,
                  exchange, best_bid, best_ask, grid_layout, open_orders, by_client_id,
                  grid_center, last_mid, market_stale, user_stale, recenter_due, listen_key,
                  faults, reuse, flattens >>

\* _bootstrap raised: run() leaves through its finally clause before any
\* child task was created.
BootstrapFailed ==
  /\ pc["main"] = "dead"
  /\ cur = NoTask
  /\ ~ shutdown.ran
  /\ _shutdown(FALSE)
  /\ order_error' = NoError
  /\ UNCHANGED << unit, position_held, unlocked_access, order_lock, recenter_aborted, cfg,
                  exchange, best_bid, best_ask, grid_layout, open_orders, by_client_id,
                  grid_center, last_mid, market_stale, user_stale, recenter_due, listen_key,
                  events, faults, reuse, flattens >>

Next ==
  \/ BootTickerResponse
  \/ MarketMessage
  \/ KillTick
  \/ SoftTickerResponse
  \/ UserRecoveryResponse
  \/ MaintTick
  \/ OrderTradeUpdate
  \/ ListenKeyExpired
  \/ RequestStop
  \/ BootstrapFailed
  \/ \E t \in Tasks :
       \/ BalanceResponse(t)
       \/ BaseResponse(t)
       \/ DeployLoop(t)
       \/ BodyEnd(t)
       \/ ListenKeyResponse(t)
       \/ Ensure(t)
       \/ SubmitResponse(t)
       \/ GuardLoop(t)
       \/ CancelResponse(t)
       \/ CheckRecenter(t)
       \/ CancelAllResponse(t)
       \/ PositionResponse(t)
       \/ FlattenResponse(t)
       \/ PollResponse(t)
       \/ RestartBegin(t)
       \/ LockAcquire(t)
       \/ RestartTickerResponse(t)

Spec == Init /\ [][Next]_vars

\* ----------------------------------------------------------------- claims
\* C1: in every reachable state, every order id stored as a value of
\* by_client_id is a key of open_orders.
C1_ClientIndexResolves ==
  \A c \in DOMAIN by_client_id : by_client_id[c] \in DOMAIN open_orders

\* C2: in every reachable state, no two records of open_orders have the same
\* side and the same formatted (guard-adjusted) price.
C2_OneOrderPerSideAndPrice ==
  \A k1, k2 \in DOMAIN open_orders :
    k1 # k2 =>
      ~ (open_orders[k1].side = open_orders[k2].side
         /\ _format_price(open_orders[k1].price) = _format_price(open_orders[k2].price))

\* C3: whenever two different tasks are in _ensure_level_has_order /
\* _submit_level_order for the same level (same side, same price), the
\* exchange receives one new_order request for it: two requests for the same
\* level are never in flight together.
C3_OneRequestPerLevel ==
  \A t1, t2 \in Tasks :
    (t1 # t2 /\ pc[t1] = "submit_wait" /\ pc[t2] = "submit_wait")
      => ~ (loc[t1].sub.level.side = loc[t2].sub.level.side
            /\ _format_price(loc[t1].sub.level.price) = _format_price(loc[t2].sub.level.price))

\* Every tracked order keeps the maker-guard distance to the book.
GuardRespected ==
  \A k \in DOMAIN open_orders :
    LET distance == Max(0, cfg.maker_guard_ticks) * TICK
    IN IF open_orders[k].side = BUY
       THEN open_orders[k].price <= best_ask - distance
       ELSE open_orders[k].price >= best_bid + distance

\* C4: once a book-ticker update has been processed to its end without an
\* error (the guard pass and the recenter check have returned), every tracked
\* BUY is at or below best_ask - maker_guard_ticks * tick and every tracked
\* SELL at or above best_bid + maker_guard_ticks * tick.
C4_GuardHoldsAfterTicker ==
  [][ (\E t \in Tasks : pc[t] = "check_recenter" /\ pc'[t] = "idle") => GuardRespected' ]_vars

\* A task is inside the body of _recenter or _restart_grid.
InBody(t) ==
  /\ loc[t].body.kind \in { "recenter", "restart" }
  /\ pc[t] \in { "cancel_all_wait", "position_wait", "flatten_wait", "poll_wait",
                 "balance_wait", "base_wait", "deploy_loop", "ensure", "submit_wait",
                 "body_end" }

\* C6: at no time are two bodies of recenter / restart_grid in progress.
C6_BodiesExclusive ==
  \A t1, t2 \in Tasks : t1 # t2 => ~ (InBody(t1) /\ InBody(t2))

\* C7: an order for which an ORDER_TRADE_UPDATE with a terminal status has
\* been processed (the handler stamps the status on the record first) is in
\* neither open_orders nor by_client_id, whatever the execution type was.
C7_TerminalOrdersDropped ==
  /\ \A k \in DOMAIN open_orders : open_orders[k].status \notin TerminalStatuses
  /\ \A c \in DOMAIN by_client_id :
       by_client_id[c] \in DOMAIN open_orders
         => open_orders[by_client_id[c]].status \notin TerminalStatuses

\* C10: in live mode, a kill-switch tick at which the user stream is stale
\* attempts the listen-key keepalive (or a new key), whatever the market
\* stream's state, and a failed attempt leads to the rebuild.
C10_UserStallHandled ==
  [][ /\ (pc["kill"] = "idle" /\ pc'["kill"] \notin { "idle", "cancelled" }
          /\ ~ cfg.dry_run /\ user_stale')
         => pc'["kill"] \in { "keepalive_wait", "soft_newkey_wait" }
      /\ (pc["kill"] \in { "keepalive_wait", "soft_newkey_wait" } /\ faults' # faults)
         => pc'["kill"] = "restart_begin" ]_vars

\* A task is in a body of _recenter or _restart_grid, past _flatten_position.
PastFlatten(t) ==
  /\ loc[t].body.kind \in { "recenter", "restart" }
  /\ pc[t] \in { "balance_wait", "base_wait", "deploy_loop", "ensure", "submit_wait",
                 "body_end" }

\* C5: a body of recenter or restart_grid goes on to replace state and layout
\* (and to the base position and the limit orders) only after its latest
\* get_position_amount reported flat; a body that sent a flatten order and has
\* not seen flat is still polling, with fewer than 10 polls made, or it has
\* ended by raising after exactly 10 polls (or on a failed REST call).
C5_RebuildOnlyWhenFlat ==
  \A t \in Tasks :
    /\ PastFlatten(t) => loc[t].body.flat_seen
    /\ (loc[t].body.flatten_sent /\ ~ loc[t].body.flat_seen)
         => \/ pc[t] = "poll_wait" /\ loc[t].body.polls < 10
            \/ pc[t] = "dead" /\ (loc[t].body.polls = 10 \/ faults > 0)

\* A body ended by raising after ten polls that all reported an open position.
C5_Witness ==
  \E t \in Tasks :
    /\ pc[t] = "dead"
    /\ loc[t].body.kind \in { "recenter", "restart" }
    /\ loc[t].body.flatten_sent
    /\ ~ loc[t].body.flat_seen
    /\ loc[t].body.polls = 10
    /\ faults = 0

\* The level the refill of a fill is due at, by the layout in force.
RefillLevel(fill, layout) ==
  IF fill.side = BUY
  THEN GridLevel(fill.level_index, SELL, Min(fill.price + layout.spacing, layout.upper_price),
                 fill.quantity)
  ELSE GridLevel(fill.level_index, BUY, Max(fill.price - layout.spacing, layout.lower_price),
                 fill.quantity)

\* The refill is inside the grid range.
RefillInRange(fill, layout) ==
  IF fill.side = BUY THEN fill.price + layout.spacing <= layout.upper_price
  ELSE fill.price - layout.spacing >= layout.lower_price

\* The user task takes the step that handles a fill and starts its refill.
FillStep == pc["user"] = "idle" /\ pc'["user"] = "ensure"

\* The user task receives the answer to the refill's new_order.
RefillAckStep ==
  /\ pc["user"] = "submit_wait"
  /\ pc'["user"] \notin { "submit_wait", "cancelled" }
  /\ loc["user"].fill # NoFill
  /\ faults' = faults

\* C8 as stated: a FILLED TRADE for a tracked order whose refill is in range
\* and not yet resting removes the record, writes the refill level (opposite
\* side, price one spacing away capped to the range, same quantity) into the
\* layout slot level_index, and submits exactly one order for it; when the
\* refill is acknowledged the number of tracked orders equals the number
\* before the fill.
C8_RefillRestoresCount ==
  [][ /\ (FillStep /\ RefillInRange(loc'["user"].fill, grid_layout))
         => /\ loc'["user"].fill.order_id \notin DOMAIN open_orders'
            /\ loc'["user"].sub.level = RefillLevel(loc'["user"].fill, grid_layout)
            /\ grid_layout'.levels[loc'["user"].fill.level_index + 1]
                 = RefillLevel(loc'["user"].fill, grid_layout)
      /\ (pc["user"] = "ensure" /\ loc["user"].fill # NoFill)
         => /\ pc'["user"] = "submit_wait"
            /\ loc'["user"].sub.level = loc["user"].sub.level
            /\ loc'["user"].sub.quantity = loc["user"].fill.quantity
      /\ RefillAckStep
         => /\ pc'["user"] = "idle"
            /\ Cardinality(DOMAIN open_orders') = loc["user"].fill.count ]_vars

\* The kill-switch is in the soft recovery of a market stall, at label.
SoftProcessing == { "guard_loop", "cancel_wait", "ensure", "submit_wait", "check_recenter" }

InMarketRecovery ==
  loc["kill"].in_soft /\ loc["kill"].body.reason = "market data stalled"

InjectedMidInRange ==
  ~ RecenterThresholdReached(loc["kill"].tick_mid, grid_center, grid_layout)

\* C9 as stated: at a kill-switch tick with a stale market stream, a REST
\* quote with non-zero bid and ask refreshes last_market_ts and, when its mid
\* is within the recenter threshold, leads to no cancel-all and no rebuild;
\* a failed soft recovery leads to restart_grid("market data stalled").
C9_SoftRecoveryNoRebuild ==
  [][ /\ (pc["kill"] = "soft_ticker_wait" /\ pc'["kill"] \in SoftProcessing)
         => ~ market_stale'
      /\ (pc["kill"] \in SoftProcessing /\ InMarketRecovery /\ InjectedMidInRange)
         => pc'["kill"] \notin { "cancel_all_wait", "restart_begin" }
      /\ (InMarketRecovery /\ ~ loc'["kill"].in_soft
          /\ pc'["kill"] \notin { "idle", "cancelled" })
         => /\ pc'["kill"] = "restart_begin"
            /\ loc'["kill"].body.reason = "market data stalled" ]_vars

\* C9, amended: no cancel-all and no rebuild follow provided also that no call
\* made while the injected quote is processed (cancel_order, new_order) fails.
C9_SoftRecoveryNoRebuildUnlessError ==
  [][ /\ (pc["kill"] = "soft_ticker_wait" /\ pc'["kill"] \in SoftProcessing)
         => ~ market_stale'
      /\ (pc["kill"] \in SoftProcessing /\ InMarketRecovery /\ InjectedMidInRange
          /\ faults' = faults)
         => pc'["kill"] \notin { "cancel_all_wait", "restart_begin" }
      /\ (InMarketRecovery /\ ~ loc'["kill"].in_soft
          /\ pc'["kill"] \notin { "idle", "cancelled" })
         => /\ pc'["kill"] = "restart_begin"
            /\ loc'["kill"].body.reason = "market data stalled" ]_vars

\* A soft recovery has injected a quote within the threshold and is about to
\* return with the timestamp refreshed.
C9_Witness ==
  /\ pc["kill"] = "check_recenter"
  /\ InMarketRecovery
  /\ InjectedMidInRange
  /\ ~ market_stale

\* C11: a maintenance check invokes _restart_grid only when the table is
\* empty or one-sided, and while the bot is running an empty or one-sided
\* grid still has a maintenance loop alive to rebuild it.
C11_MaintenanceRebuilds ==
  [][ /\ (pc["maint"] = "idle" /\ pc'["maint"] = "restart_begin")
         => MaintenanceReason(open_orders) # ""
      /\ (Booted' /\ MaintenanceReason(open_orders') # "")
         => pc'["maint"] # "dead" ]_vars

\* C12: the recenter check uses max(recenter_threshold * spacing *
\* levels_per_side, 2 * spacing) as its threshold: a mid closer than two
\* spacings to the grid center never starts a recenter, and a mid at or beyond
\* the threshold starts one when the debounce allows.
C12_RecenterThresholdIsMax ==
  [][ \A t \in Tasks :
        (pc[t] = "check_recenter" /\ pc'[t] # "check_recenter")
        => LET deviation100 == 100 * Abs(loc[t].tick_mid - grid_center)
               floor100 == 100 * 2 * grid_layout.spacing
               threshold100 == Max(cfg.recenter_threshold * grid_layout.spacing
                                     * grid_layout.levels_per_side, floor100)
           IN /\ deviation100 < floor100 => pc'[t] # "cancel_all_wait"
              /\ (deviation100 >= threshold100 /\ recenter_due')
                 => pc'[t] = "cancel_all_wait" ]_vars

\* C13: a recenter check starts a recenter exactly when the mid is at or
\* beyond the threshold and 300 s have elapsed since the last recorded
\* recenter time, and the end of bootstrap, recenter and restart_grid records
\* that time.
C13_RecenterDebounced ==
  [][ /\ \A t \in Tasks :
           (pc[t] = "check_recenter" /\ pc'[t] # "check_recenter")
           => (pc'[t] = "cancel_all_wait"
               <=> /\ RecenterThresholdReached(loc[t].tick_mid, grid_center, grid_layout)
                   /\ recenter_due')
      /\ \A t \in Tasks :
           (pc[t] = "body_end" /\ pc'[t] # "body_end") => ~ recenter_due' ]_vars

\* A recenter started by the check, 300 s or more after the recorded time.
C13_Witness ==
  \E t \in Tasks :
    /\ pc[t] = "cancel_all_wait"
    /\ loc[t].body.kind = "recenter"
    /\ recenter_due
    /\ RecenterThresholdReached(loc[t].body.mid, grid_center, grid_layout)

\* Positions at which a task awaits a signed, state-mutating request that the
\* dry-run client does not stub or that the dry-run controller never makes.
LiveOnly == { "base_wait", "flatten_wait", "poll_wait", "listenkey_wait",
              "keepalive_wait", "soft_newkey_wait" }

\* C14: in dry-run mode no signed, state-mutating request is in flight (the
\* stub answers within the caller's step), every order submission is
\* acknowledged and tracked, the balance used to size the grid is the
\* configured virtual balance, and the position is 0 (nothing to flatten, no
\* listen key).
C14_DryRunStubbed ==
  [][ cfg.dry_run
      => /\ \A t \in Tasks :
              /\ pc'[t] \notin LiveOnly
              /\ pc'[t] \in Stubbed => cur' = t
              /\ (pc[t] = "submit_wait" /\ pc'[t] # "submit_wait")
                 => /\ pc'[t] = loc[t].ret
                    /\ loc[t].sub.client_id \in DOMAIN by_client_id'
                    /\ by_client_id'[loc[t].sub.client_id] \in DOMAIN open_orders'
                    /\ open_orders'[by_client_id'[loc[t].sub.client_id]].price
                         = loc[t].sub.price
              /\ (pc[t] = "balance_wait" /\ pc'[t] = "deploy_loop")
                 => grid_layout'.levels_per_side
                      = _determine_levels_per_side(loc[t].body.mid,
                                                   cfg.dry_run_virtual_balance)
              /\ (pc[t] = "position_wait" /\ pc'[t] # "position_wait")
                 => pc'[t] = "balance_wait"
         /\ flattens' = 0
         /\ ~ listen_key' ]_vars

\* A dry-run recenter whose submissions were all acknowledged by the stub and
\* tracked, on a grid sized from the virtual balance.
C14_Witness ==
  /\ cfg.dry_run
  /\ Booted
  /\ grid_layout.levels_per_side = 2
  /\ Cardinality(DOMAIN open_orders) = 2 * grid_layout.levels_per_side
  /\ \E t \in Tasks : pc[t] = "deploy_loop" /\ loc[t].body.kind = "recenter"

\* No REST call is in flight and no handler is running.
Quiescent == cur = NoTask /\ \A t \in Tasks : pc[t] \in { "idle", "running", "dead" }

\* C15: at quiescence the ids in open_orders are exactly the ids of the bot's
\* limit orders live on the exchange.
C15_TableMatchesExchange ==
  (~ cfg.dry_run /\ Booted /\ Quiescent) => DOMAIN open_orders = exchange

\* C16: every tracked order has price * quantity >= min_notional, with the
\* price that was sent after the maker-guard adjustment.
C16_TrackedNotional ==
  \A k \in DOMAIN open_orders :
    open_orders[k].price * open_orders[k].quantity >= MIN_NOTIONAL

\* The i-th BUY level is i spacings under the center and the i-th SELL level
\* i spacings over it.
LayoutRegular(layout) ==
  \A j \in 1..Len(layout.levels) :
    LET level == layout.levels[j]
        i == (j + 1) \div 2
    IN IF level.side = BUY THEN layout.center_price - level.price = i * layout.spacing
       ELSE level.price - layout.center_price = i * layout.spacing

\* A body replaces the layout by the one build_grid returned.
LayoutReplaced(t) == pc[t] = "balance_wait" /\ pc'[t] \in { "deploy_loop", "base_wait" }

\* C17: every layout build_grid returns for the mid of two tick-aligned quotes
\* has its i-th BUY level at center - i * spacing and its i-th SELL level at
\* center + i * spacing.
C17_LevelsEvenlySpaced ==
  [][ \A t \in Tasks : LayoutReplaced(t) => LayoutRegular(grid_layout') ]_vars

\* Arguments on which build_grid is examined on its own.
MaxGridMid == 24
MaxGridLevels == 3
GridMids == (0 - 2)..MaxGridMid
GridCounts == (0 - 1)..MaxGridLevels

\* A layout of exactly 2 * n levels, buy and sell interleaved per step, index
\* equal to position, lower_price the lowest buy, upper_price the highest sell.
WellFormed(layout, n) ==
  /\ layout.levels_per_side = n
  /\ Len(layout.levels) = 2 * n
  /\ \A j \in 1..Len(layout.levels) :
       /\ layout.levels[j].index = j - 1
       /\ layout.levels[j].side = (IF j % 2 = 1 THEN BUY ELSE SELL)
       /\ layout.levels[j].price > 0
  /\ \A j \in 1..Len(layout.levels) :
       /\ layout.levels[j].side = BUY => layout.lower_price <= layout.levels[j].price
       /\ layout.levels[j].side = SELL => layout.upper_price >= layout.levels[j].price
  /\ \E j \in 1..Len(layout.levels) :
       layout.levels[j].side = BUY /\ layout.levels[j].price = layout.lower_price
  /\ \E j \in 1..Len(layout.levels) :
       layout.levels[j].side = SELL /\ layout.levels[j].price = layout.upper_price

\* build_grid must raise on these arguments.
MustRaise(mid_price, levels_per_side) ==
  \/ mid_price <= 0
  \/ levels_per_side <= 0
  \/ \E step \in 1..levels_per_side :
       _floor_to_tick(mid_price - spacing_of_grid * step, TICK) <= 0

\* C18: build_grid raises when the mid or the level count is not positive or
\* a buy price is not positive, and otherwise raises or returns a well-formed
\* layout of 2 * levels_per_side levels; a body whose build_grid raised keeps
\* the old layout and submits no order.
C18_BuildGridAllOrNothing ==
  [][ /\ pc["main"] = "boot_ticker_wait"
         => \A m \in GridMids, n \in GridCounts :
              IF MustRaise(m, n) THEN ~ build_grid(m, n).ok
              ELSE build_grid(m, n).ok => WellFormed(build_grid(m, n), n)
      /\ \A t \in Tasks :
           (pc[t] = "balance_wait" /\ pc'[t] # "balance_wait")
           => IF LayoutReplaced(t)
              THEN /\ WellFormed(grid_layout', grid_layout'.levels_per_side)
                   /\ grid_layout'.center_price = loc[t].body.mid
                   /\ ~ MustRaise(loc[t].body.mid, grid_layout'.levels_per_side)
              ELSE /\ grid_layout' = grid_layout
                   /\ pc'[t] \in { "dead", "idle", "restart_begin", "cancelled" } ]_vars

\* build_grid raised inside a recenter or a restart: the state was replaced
\* for the new mid, the layout is still the old one, no order is tracked.
C18_Witness ==
  /\ Booted
  /\ grid_layout.ok
  /\ grid_center = 3
  /\ grid_layout.center_price # grid_center
  /\ DOMAIN open_orders = {}
  /\ \A t \in Tasks : pc[t] \in { "idle", "running", "dead" }

\* C19: every tracked record whose level_index is within the current layout
\* has the side of the layout level at that index.
C19_RecordSideMatchesLayout ==
  grid_layout.ok
  => \A k \in DOMAIN open_orders :
       (0 <= open_orders[k].level_index
        /\ open_orders[k].level_index < Len(grid_layout.levels))
       => grid_layout.levels[open_orders[k].level_index + 1].side = open_orders[k].side

\* C20: once the shutdown path has run, every child task is cancelled or
\* ended, the listen key was closed when live and held, and the REST
\* transport is closed, whatever state the child tasks were in.
C20_ShutdownCompletes ==
  shutdown.ran
  => /\ \A t \in Children(pc["main"] = "stopped") : pc[t] \in { "cancelled", "dead" }
     /\ (~ cfg.dry_run /\ listen_key) => shutdown.key_close_sent
     /\ shutdown.transport_closed

\* ------------------------------------------- components on their own
\* The controller's variables, left alone while a component is exercised on
\* its own.
controller_vars ==
  << cfg, best_bid, best_ask, grid_layout, grid_center, last_mid, market_stale,
     user_stale, recenter_due, listen_key, restart_lock, cur, pc, loc, events, faults,
     reuse, flattens, exchange, shutdown, order_lock, recenter_aborted,
     unlocked_access, order_error, position_held >>

\* A freshly constructed bot, before run(): nothing tracked, no call made.
UnitInit == Init /\ ~ cfg.dry_run

\* ------------------------------------------------ state.py on its own
MaxStateIds == 2

StateIds == 1..MaxStateIds
StateClientIds == { << 0, stamp >> : stamp \in 1..2 }

\* The records track_order is called with for an order id.
StateRecords(order_id) ==
  { OrderRecord(0, side, 100, 1, c, order_id, "NEW") :
      side \in { BUY, SELL }, c \in StateClientIds }

\* One call of RuntimeState.track_order.
TrackOrder ==
  \E order_id \in StateIds :
    \E record \in StateRecords(order_id) :
      LET st == track_order(st_now, order_id, record)
      IN /\ open_orders' = st.open_orders
         /\ by_client_id' = st.by_client_id
         /\ unit' = [op |-> "track_order", order_id |-> order_id, record |-> record]
         /\ UNCHANGED controller_vars

\* One call of RuntimeState.drop_order; removed tells whether it popped a
\* record.
DropOrder ==
  \E order_id \in StateIds :
    LET st == drop_order(st_now, order_id)
    IN /\ open_orders' = st.open_orders
       /\ by_client_id' = st.by_client_id
       /\ unit' = [op |-> "drop_order", order_id |-> order_id,
                   removed |-> order_id \in DOMAIN open_orders]
       /\ UNCHANGED controller_vars

\* track_order(id, r) followed at once by drop_order(id); before is the pair
\* of maps the two calls started from.
TrackThenDrop ==
  \E order_id \in StateIds :
    \E record \in StateRecords(order_id) :
      LET st == drop_order(track_order(st_now, order_id, record), order_id)
      IN /\ open_orders' = st.open_orders
         /\ by_client_id' = st.by_client_id
         /\ unit' = [op |-> "track_order; drop_order", order_id |-> order_id,
                     record |-> record, before |-> st_now]
         /\ UNCHANGED controller_vars

StateNext ==
  \/ TrackOrder
  \/ DropOrder
  \/ TrackThenDrop

StateSpec == UnitInit /\ [][StateNext]_vars

\* C21: track_order(id, r) followed by drop_order(id) leaves open_orders and
\* by_client_id as they were before the two calls, also when id was already
\* a key of open_orders or r.client_order_id a key of by_client_id.
C21_TrackDropIsIdentity ==
  unit.op = "track_order; drop_order" => st_now = unit.before

\* C22: after a drop_order(id) that removed a record, open_orders has no key
\* id and by_client_id has no entry whose value is id, whatever track_order
\* calls came before.
C22_DropLeavesNoEntry ==
  (unit.op = "drop_order" /\ unit.removed)
  => /\ unit.order_id \notin DOMAIN open_orders
     /\ \A c \in DOMAIN by_client_id : by_client_id[c] # unit.order_id

\* ---------------------------------- _compute_relaunch_price on its own
\* Reference prices of the filled order, in half ticks.
MaxRelaunchPrice == 122
RelaunchPrices == (MaxRelaunchPrice - 40)..MaxRelaunchPrice

\* The layouts in force when a fill is handled.
RelaunchLayouts == { build_grid(102, n) : n \in 1..2 }

\* One call of _compute_relaunch_price(side, reference_price) under a layout.
ComputeRelaunchPrice ==
  \E side \in { BUY, SELL }, reference_price \in RelaunchPrices,
     layout \in RelaunchLayouts :
    /\ unit' = [op |-> "_compute_relaunch_price", side |-> side,
                reference_price |-> reference_price, spacing |-> layout.spacing,
                lower_price |-> layout.lower_price, upper_price |-> layout.upper_price,
                result |-> _compute_relaunch_price(side, reference_price, layout)]
    /\ UNCHANGED << controller_vars, open_orders, by_client_id >>

RelaunchNext == ComputeRelaunchPrice

RelaunchSpec == UnitInit /\ [][RelaunchNext]_vars

\* C23: _compute_relaunch_price returns None whenever the uncapped target
\* (reference + spacing for a SELL refill, reference - spacing for a BUY
\* refill) lies outside [lower_price, upper_price], and whenever the
\* resulting target is within one tick of the reference price; otherwise it
\* returns a price inside [lower_price, upper_price].
C23_RelaunchNoneOutsideBounds ==
  unit.op = "_compute_relaunch_price"
  => LET target == IF unit.side = SELL THEN unit.reference_price + unit.spacing
                   ELSE unit.reference_price - unit.spacing
         outside == target < unit.lower_price \/ target > unit.upper_price
         near == Abs(target - unit.reference_price) < TICK
     IN IF outside \/ near THEN unit.result = NONE
        ELSE unit.result # NONE /\ unit.result \in unit.lower_price..unit.upper_price

\* ----------------------------------- _adjust_price_for_guard on its own
\* The level prices and the books the adjustment is exercised with.
GuardLevelPrices == { 96, 104, 108 }
GuardBooks == { q \in Tickers : q[1] > 0 }

\* _adjust_price_for_guard up to its loop: the guard distance and the price
\* the loop starts from.
GuardEnter ==
  /\ unit.op = "_adjust_price_for_guard" => unit.returned
  /\ \E side \in { BUY, SELL }, level_price \in GuardLevelPrices, q \in GuardBooks,
        maker_guard_ticks \in { c.maker_guard_ticks : c \in Configs } :
       unit' = [op |-> "_adjust_price_for_guard", side |-> side, best_bid |-> q[1],
                best_ask |-> q[2],
                guard_distance |-> Max(0, maker_guard_ticks) * TICK,
                price |-> IF side = BUY
                          THEN _floor_to_tick(Min(level_price, q[2] - TICK), TICK)
                          ELSE _ceil_to_tick(Max(level_price, q[1] + TICK), TICK),
                iterations |-> 0, returned |-> FALSE]
  /\ UNCHANGED << controller_vars, open_orders, by_client_id >>

\* One test of the while condition: one single-tick step of the price, with
\* the break once iterations exceeds 50, or the end of the loop.
GuardStep ==
  /\ unit.op = "_adjust_price_for_guard"
  /\ ~ unit.returned
  /\ LET inside == IF unit.side = BUY
                   THEN unit.best_ask - unit.price <= unit.guard_distance
                        /\ unit.price > TICK
                   ELSE unit.price - unit.best_bid <= unit.guard_distance
     IN unit' = IF inside
                THEN [unit EXCEPT !.price = IF unit.side = BUY THEN Max(TICK, @ - TICK)
                                            ELSE @ + TICK,
                                  !.iterations = @ + 1,
                                  !.returned = unit.iterations + 1 > MAX_GUARD_ITERATIONS]
                ELSE [unit EXCEPT !.returned = TRUE]
  /\ UNCHANGED << controller_vars, open_orders, by_client_id >>

GuardNext ==
  \/ GuardEnter
  \/ GuardStep

GuardSpec == UnitInit /\ [][GuardNext]_vars

\* C24: for every level, book and maker_guard_ticks, the maker-guard loop of
\* order submission makes at most 50 single-tick price steps before it ends
\* (iterations counts the steps made).
C24_GuardLoopAtMost50Steps ==
  unit.op = "_adjust_price_for_guard" => unit.iterations <= 50

\* ---------------------------------------- _compute_quantity on its own
MAX_QUANTITY_STEPS == 1000000

\* The prices and the symbol filters the computation is exercised with.
QuantityPrices == { 0, 10, 50 }
QuantityFilters ==
  [step_size : { 1, 2 }, min_qty : { 1, 5 }, min_notional : { 100, 600 }]

\* _compute_quantity up to its while loop; status "raised" stands for
\* GridComputationError.
QuantityEnter ==
  /\ unit.op = "_compute_quantity" => unit.status # "loop"
  /\ \E price \in QuantityPrices, filters \in QuantityFilters :
       LET step == filters.step_size
           raw_qty == PREFERRED_BASE_QTY
           steps == Max(1, -((-raw_qty) \div step))
           qty == IF steps * step < filters.min_qty THEN filters.min_qty ELSE steps * step
       IN unit' = [op |-> "_compute_quantity", price |-> price, filters |-> filters,
                   steps |-> steps, qty |-> qty, previous |-> qty, iterations |-> 0,
                   status |-> IF price <= 0 THEN "raised" ELSE "loop"]
  /\ UNCHANGED << controller_vars, open_orders, by_client_id >>

\* One test of the while condition: one more step of quantity, or the
\* return; previous is the candidate quantity before the iteration.
QuantityStep ==
  /\ unit.op = "_compute_quantity"
  /\ unit.status = "loop"
  /\ unit' = IF unit.price * unit.qty < unit.filters.min_notional
             THEN [unit EXCEPT !.steps = @ + 1,
                               !.qty = (unit.steps + 1) * unit.filters.step_size,
                               !.previous = unit.qty,
                               !.iterations = @ + 1,
                               !.status = IF unit.steps + 1 > MAX_QUANTITY_STEPS
                                          THEN "raised" ELSE "loop"]
             ELSE [unit EXCEPT !.status = "returned"]
  /\ UNCHANGED << controller_vars, open_orders, by_client_id >>

QuantityNext ==
  \/ QuantityEnter
  \/ QuantityStep

QuantitySpec == UnitInit /\ [][QuantityNext]_vars

\* C25: in _compute_quantity the candidate quantity never decreases from one
\* loop iteration to the next (the first iteration after the quantity was
\* raised to min_qty included), the loop ends within 10^6 iterations, and a
\* returned quantity is at least min_qty with price * quantity at least
\* min_notional.
C25_QuantityNeverDecreases ==
  unit.op = "_compute_quantity"
  => /\ unit.qty >= unit.previous
     /\ unit.iterations <= 1000000
     /\ unit.status = "returned"
        => /\ unit.qty >= unit.filters.min_qty
           /\ unit.price * unit.qty >= unit.filters.min_notional

\* C26: after a recenter has aborted because the position was still not flat
\* after 10 polls, no task starts another cancel-all, flatten order or
\* limit-order submission and the layout is not rebuilt: the incident stays
\* terminal until an operator restarts the bot.
C26_AbortIsTerminal ==
  [][ recenter_aborted
      => /\ \A t \in Tasks :
              pc'[t] # pc[t]
              => pc'[t] \notin { "cancel_all_wait", "flatten_wait", "submit_wait" }
         /\ grid_layout' = grid_layout ]_vars

\* ------------------------------- status notifier and shutdown on their own
MaxSnapshots == 12

\* run() has created the status-notifier task (status_notify_send_key is
\* set) and awaits _stop; the notifier gathers and posts its first snapshot.
NotifierStart ==
  /\ unit.op = "none"
  /\ unit' = [op |-> "_status_notifier_loop", stop |-> FALSE, main |-> "stop_wait",
              notifier |-> "post_wait", cancel_requested |-> FALSE, posted |-> 0,
              final |-> "none"]
  /\ UNCHANGED << controller_vars, open_orders, by_client_id >>

\* The periodic snapshot is posted, or the post fails and the error is
\* logged: either way the loop goes on to wait_for(_stop.wait(), interval),
\* which returns at once when _stop is already set.
NotifierPostDone ==
  /\ unit.op = "_status_notifier_loop"
  /\ unit.notifier = "post_wait"
  /\ ~ unit.cancel_requested
  /\ \E ok \in BOOLEAN :
       unit' = [unit EXCEPT !.posted = IF ok THEN @ + 1 ELSE @,
                            !.notifier = IF unit.stop THEN "final_post_wait"
                                         ELSE "stop_wait"]
  /\ UNCHANGED << controller_vars, open_orders, by_client_id >>

\* wait_for times out: the next periodic snapshot.
NotifierTimeout ==
  /\ unit.op = "_status_notifier_loop"
  /\ unit.notifier = "stop_wait"
  /\ ~ unit.stop
  /\ ~ unit.cancel_requested
  /\ unit.posted < MaxSnapshots
  /\ unit' = [unit EXCEPT !.notifier = "post_wait"]
  /\ UNCHANGED << controller_vars, open_orders, by_client_id >>

\* request_stop(): _stop is set, which wakes every waiter of _stop.wait().
NotifierRequestStop ==
  /\ unit.op = "_status_notifier_loop"
  /\ ~ unit.stop
  /\ unit' = [unit EXCEPT !.stop = TRUE]
  /\ UNCHANGED << controller_vars, open_orders, by_client_id >>

\* run() resumes from _stop.wait() and enters _shutdown: task.cancel() on
\* every task, then it awaits them.
NotifierMainShutdown ==
  /\ unit.op = "_status_notifier_loop"
  /\ unit.stop
  /\ unit.main = "stop_wait"
  /\ unit' = [unit EXCEPT !.main = "await_tasks",
                          !.cancel_requested = unit.notifier \notin { "ended" }]
  /\ UNCHANGED << controller_vars, open_orders, by_client_id >>

\* The notifier resumes from wait_for with _stop set, leaves the loop and
\* starts the final snapshot.
NotifierLeavesLoop ==
  /\ unit.op = "_status_notifier_loop"
  /\ unit.stop
  /\ unit.notifier = "stop_wait"
  /\ ~ unit.cancel_requested
  /\ unit' = [unit EXCEPT !.notifier = "final_post_wait"]
  /\ UNCHANGED << controller_vars, open_orders, by_client_id >>

\* The final snapshot is posted (or the post fails and is logged) and the
\* task ends.
NotifierFinalPostDone ==
  /\ unit.op = "_status_notifier_loop"
  /\ unit.notifier = "final_post_wait"
  /\ ~ unit.cancel_requested
  /\ \E ok \in BOOLEAN :
       unit' = [unit EXCEPT !.final = IF ok THEN "posted" ELSE "failed",
                            !.notifier = "ended"]
  /\ UNCHANGED << controller_vars, open_orders, by_client_id >>

\* The cancelled task resumes: CancelledError is raised at its await, which
\* `except Exception` does not catch.  A post that was in flight may or may
\* not have reached the webhook.
NotifierCancelled ==
  /\ unit.op = "_status_notifier_loop"
  /\ unit.cancel_requested
  /\ unit.notifier \in { "post_wait", "stop_wait", "final_post_wait" }
  /\ \E delivered \in (IF unit.notifier = "final_post_wait" THEN BOOLEAN ELSE { FALSE }) :
       unit' = [unit EXCEPT !.notifier = "cancelled",
                            !.final = IF delivered THEN "posted" ELSE "none",
                            !.cancel_requested = FALSE]
  /\ UNCHANGED << controller_vars, open_orders, by_client_id >>

\* _shutdown has awaited every task.
NotifierMainDone ==
  /\ unit.op = "_status_notifier_loop"
  /\ unit.main = "await_tasks"
  /\ unit.notifier \in { "ended", "cancelled" }
  /\ unit' = [unit EXCEPT !.main = "done"]
  /\ UNCHANGED << controller_vars, open_orders, by_client_id >>

NotifierNext ==
  \/ NotifierStart
  \/ NotifierPostDone
  \/ NotifierTimeout
  \/ NotifierRequestStop
  \/ NotifierMainShutdown
  \/ NotifierLeavesLoop
  \/ NotifierFinalPostDone
  \/ NotifierCancelled
  \/ NotifierMainDone

NotifierSpec == UnitInit /\ [][NotifierNext]_vars

\* C27: when the status notifier task is running and the bot shuts down
\* (stop signal set, then the shutdown path cancels the child tasks), a final
\* snapshot marked as shutdown has been posted to the webhook (or its post
\* has failed there) by the time the notifier task ends, whatever the order
\* of the stop signal, the wake-ups and the cancellation.
C27_FinalSnapshotPosted ==
  (unit.op = "_status_notifier_loop" /\ unit.notifier \in { "ended", "cancelled" })
  => unit.final # "none"

\* ---------------------------------------------- _with_retry on its own
RATE_LIMIT_CODES == { 418, 429, -1003, -1015, -1021, -1099 }
RETRYABLE_STATUS == { 418, 429, 500, 503 }
MAX_RETRY_DELAY == 32

\* The values of max_attempts, the default of 5 among them.
MaxRetryAttempts == 5

\* What one call of the operation ends with: its result, a RestAPIError
\* (code 0 when the payload carries none), or another exception.
RetryOutcomes ==
  { [kind |-> "ok", status |-> 200, code |-> 0], [kind |-> "other", status |-> 0, code |-> 0] }
  \cup [kind : { "rest" }, status : { 400 } \cup RETRYABLE_STATUS,
        code : { 0, -2011 } \cup RATE_LIMIT_CODES]

\* A _with_retry that retries after every RestAPIError; the retry property
\* tells it from the real one.
RetriesEveryRestError(exc) == exc.kind = "rest"

\* The test of _with_retry on a caught RestAPIError, the attempt count aside.
RetriesOn(exc) ==
  exc.kind = "rest" /\ (exc.status \in RETRYABLE_STATUS \/ exc.code \in RATE_LIMIT_CODES)

\* _with_retry is entered: delay = 1.0, attempt = 1.
RetryEnter ==
  /\ unit.op = "_with_retry" => unit.status # "calling"
  /\ \E max_attempts \in 1..MaxRetryAttempts :
       unit' = [op |-> "_with_retry", max_attempts |-> max_attempts, attempt |-> 1,
                delay |-> 1, invocations |-> 0, status |-> "calling",
                last |-> [kind |-> "none", status |-> 0, code |-> 0]]
  /\ UNCHANGED << controller_vars, open_orders, by_client_id >>

\* One `await call()` and what follows it: the return, the sleep before the
\* next attempt, or the raise.
RetryCall ==
  /\ unit.op = "_with_retry"
  /\ unit.status = "calling"
  /\ \E exc \in RetryOutcomes :
       unit' = IF exc.kind = "ok"
               THEN [unit EXCEPT !.invocations = @ + 1, !.last = exc, !.status = "returned"]
               ELSE IF unit.attempt < unit.max_attempts /\ RetriesOn(exc)
               THEN [unit EXCEPT !.invocations = @ + 1, !.last = exc,
                                 !.delay = Min(unit.delay * 2, MAX_RETRY_DELAY),
                                 !.attempt = @ + 1]
               ELSE [unit EXCEPT !.invocations = @ + 1, !.last = exc, !.status = "raised"]
  /\ UNCHANGED << controller_vars, open_orders, by_client_id >>

RetryNext ==
  \/ RetryEnter
  \/ RetryCall

RetrySpec == UnitInit /\ [][RetryNext]_vars

\* The failures the retry is specified for.
SpecifiedRetryable(exc) ==
  /\ exc.kind = "rest"
  /\ \/ exc.status \in { 418, 429, 500, 503 }
     \/ exc.code \in { 418, 429, -1003, -1015, -1021, -1099 }

\* C28: _with_retry invokes the operation at most max_attempts times; it goes
\* on to another invocation only after a REST error with status in {418, 429,
\* 500, 503} or code in {418, 429, -1003, -1015, -1021, -1099}; any other
\* failure is raised at once, with no invocation after it (after exactly one
\* invocation when it is the first failure); a retryable failure is raised
\* only after the max_attempts-th invocation; a result is returned at once.
C28_RetryOnlyRateLimits ==
  unit.op = "_with_retry"
  => /\ unit.invocations <= unit.max_attempts
     /\ unit.invocations = unit.attempt - (IF unit.status = "calling" THEN 1 ELSE 0)
     /\ (unit.status = "calling" /\ unit.invocations > 0) => SpecifiedRetryable(unit.last)
     /\ (unit.last.kind \in { "rest", "other" } /\ ~ SpecifiedRetryable(unit.last))
        => unit.status = "raised"
     /\ (unit.status = "raised" /\ SpecifiedRetryable(unit.last))
        => unit.invocations = unit.max_attempts
     /\ unit.last.kind = "ok" <=> unit.status = "returned"

\* The default five attempts are used up on retryable failures and the last
\* one is raised.
C28_Witness ==
  /\ unit.op = "_with_retry"
  /\ unit.max_attempts = 5
  /\ unit.invocations = 5
  /\ unit.status = "raised"
  /\ unit.last.status = 503

\* The positions at which a task awaits the answer of a REST call.
RestWaits ==
  { "boot_ticker_wait", "balance_wait", "base_wait", "listenkey_wait", "submit_wait",
    "cancel_wait", "cancel_all_wait", "position_wait", "flatten_wait", "poll_wait",
    "restart_ticker_wait", "soft_ticker_wait", "keepalive_wait", "soft_newkey_wait" }

\* C29: no task awaits a REST call (order submit, cancel, cancel-all, ticker,
\* position, balance, listen key) while it holds the order-lock, and the
\* order-lock is free whenever every task is suspended: the code it guards
\* has no suspension point.
C29_NoRestUnderOrderLock ==
  /\ \A t \in Tasks : pc[t] \in RestWaits => order_lock # t
  /\ cur = NoTask => order_lock = NoTask

\* A task awaits the cancel_order of _move_order, just after the block under
\* the order-lock that looked the record up.
C29_Witness ==
  /\ ~ cfg.dry_run
  /\ \E t \in Tasks : pc[t] = "cancel_wait" /\ loc[t].mv.order_id \in DOMAIN open_orders
  /\ cur = NoTask
  /\ order_lock = NoTask

\* C30: every read and write of open_orders and by_client_id by a controller
\* task (the existence checks before submission and before refill, the
\* snapshots, track, drop, clear) is made while the task holds the
\* order-lock.
C30_TableOnlyUnderOrderLock == unlocked_access = {}

\* ------------------------------------------------ claims C31 to C40
\* Task t left its frame through an exception in this step: the stream loops
\* log it and read on with nothing in hand, the soft recovery falls back to
\* _restart_grid, every other task ends.
Raised(t) ==
  IF t = "kill" /\ loc[t].in_soft THEN pc'[t] = "restart_begin"
  ELSE IF t \in { "market", "user" } THEN pc'[t] = "idle" /\ loc'[t] = NoLocals
  ELSE pc'[t] = "dead"

\* _submit_level_order returned to its caller in this step.
SubmitReturned(t) == pc'[t] = loc[t].ret /\ loc'[t] = [loc[t] EXCEPT !.sub = NoSub]

\* C31: when new_order ends with -2011, _submit_level_order returns normally
\* and open_orders and by_client_id are unchanged; when it ends with any other
\* error, the error is raised to the caller and both maps are unchanged.
C31_DuplicateIsBenign ==
  [][\A t \in Tasks :
       (pc[t] = "submit_wait" /\ loc'[t] # loc[t] /\ order_error' # NoError)
       => /\ open_orders' = open_orders
          /\ by_client_id' = by_client_id
          /\ order_error' = "-2011" => SubmitReturned(t)
          /\ order_error' = "other" => Raised(t)
          /\ order_error' \in { "-2011", "other" }]_vars

\* A deploy loop goes on after new_order was answered with -2011.
C31_Witness ==
  /\ order_error = "-2011"
  /\ \E t \in Tasks : pc[t] = "deploy_loop" /\ loc[t].dep_pos >= 1

\* The record of the order _move_order is repositioning is in neither map
\* after this step.
MovedRecordDropped(t) ==
  LET order_id == loc[t].mv.order_id
  IN /\ order_id \notin DOMAIN open_orders'
     /\ order_id \in DOMAIN open_orders
        => open_orders[order_id].client_order_id \notin DOMAIN by_client_id'

\* C32: a maker-guard reposition whose cancel fails with -2011 or -2013 drops
\* the record from both maps and submits no replacement; one whose cancel
\* succeeds drops the record and submits exactly one replacement for the same
\* level_index and side; on any other error the record stays tracked and the
\* error is raised.
C32_RepositionOutcomes ==
  [][\A t \in Tasks :
       /\ (pc[t] = "cancel_wait" /\ loc'[t] # loc[t] /\ pc'[t] # "cancelled")
          => LET order_id == loc[t].mv.order_id
             IN /\ order_error' \in { "-2011", "-2013" }
                   => MovedRecordDropped(t) /\ pc'[t] = "guard_loop"
                /\ order_error' = NoError
                   => /\ MovedRecordDropped(t)
                      /\ pc'[t] = "ensure"
                      /\ loc'[t].sub.level.index = open_orders[order_id].level_index
                      /\ loc'[t].sub.level.side = open_orders[order_id].side
                /\ order_error' = "other"
                   => /\ open_orders' = open_orders
                      /\ by_client_id' = by_client_id
                      /\ Raised(t)
       /\ (pc[t] = "ensure" /\ loc[t].ret = "guard_loop" /\ loc'[t] # loc[t])
          => pc'[t] = "submit_wait"]_vars

\* C33: an error raised during one tick of a timer task (kill-switch,
\* maintenance) does not end the task: neither task is ever ended by an
\* exception.
C33_TimerTasksSurvive ==
  \A t \in { "kill", "maint" } : pc[t] # "dead"

\* Task t is deploying the limit orders of the layout its bootstrap, recenter
\* or restart built.
Deploying(t) ==
  /\ loc[t].body.kind # "none"
  /\ \/ pc[t] \in { "deploy_loop", "body_end" }
     \/ pc[t] \in { "ensure", "submit_wait" } /\ loc[t].ret = "deploy_loop"

\* C34: in live mode no limit order of a newly built layout is submitted
\* before the MARKET BUY of the base position was acknowledged (a failed one
\* ends the body before any limit order), the MARKET BUY asks for at least the
\* sum of the quantities of the layout's SELL levels, and a limit order's
\* payload carries reduceOnly exactly when it is a SELL.
C34_BaseBeforeGrid ==
  [][\A t \in Tasks :
       /\ (~ cfg.dry_run /\ Deploying(t)' ) => loc'[t].base_ok
       /\ (~ cfg.dry_run /\ pc'[t] = "submit_wait")
          => (loc'[t].sub.reduce_only <=> loc'[t].sub.level.side = SELL)
       /\ (~ cfg.dry_run /\ pc[t] = "balance_wait" /\ pc'[t] = "base_wait")
          => /\ loc'[t].base_qty >= SellQuantity(grid_layout'.levels)
             /\ loc'[t].base_qty >= 1
             /\ ~ loc'[t].base_ok]_vars

\* A restart, base position acknowledged, is submitting its SELL level.
C34_Witness ==
  \E t \in Tasks :
    /\ ~ cfg.dry_run
    /\ Deploying(t)
    /\ loc[t].body.kind = "restart"
    /\ pc[t] = "submit_wait"
    /\ loc[t].sub.level.side = SELL
    /\ loc[t].sub.reduce_only
    /\ loc[t].base_ok
    /\ loc[t].base_qty = 2

\* ------------------------------------------ the user stream on its own
MaxUserMessages == 4

\* _user_stream_loop connects: nothing received yet, no handler running.
\* arrived is the websocket's buffer of messages not yet read, numbered in
\* arrival order; entered lists the messages _handle_user_event was called
\* with, in call order; active counts the calls that have not returned.
UserStreamConnect ==
  /\ unit.op = "none"
  /\ unit' = [op |-> "_user_stream_loop", reader |-> "recv", stop |-> FALSE, sent |-> 0,
              arrived |-> << >>, entered |-> << >>, active |-> 0]
  /\ UNCHANGED << controller_vars, open_orders, by_client_id >>

\* The exchange sends the next user event; the websocket buffers it whatever
\* the reader is doing.
UserMessageArrives ==
  /\ unit.op = "_user_stream_loop"
  /\ unit.reader \in { "recv", "handle_wait" }
  /\ unit.sent < MaxUserMessages
  /\ unit' = [unit EXCEPT !.sent = @ + 1, !.arrived = Append(@, unit.sent + 1)]
  /\ UNCHANGED << controller_vars, open_orders, by_client_id >>

\* A reader that starts the handler as a task of its own and reads on; the
\* one-at-a-time property tells it from the real one.
UserReaderSpawns ==
  /\ unit.op = "_user_stream_loop"
  /\ unit.reader = "recv"
  /\ unit.arrived # << >>
  /\ unit.active < MaxUserMessages
  /\ unit' = [unit EXCEPT !.arrived = Tail(@),
                          !.entered = Append(@, Head(unit.arrived)),
                          !.active = @ + 1]
  /\ UNCHANGED << controller_vars, open_orders, by_client_id >>

\* `async for message in ws`: the reader takes the oldest buffered message;
\* with _stop set it leaves the loop, otherwise it awaits _handle_user_event.
UserReaderTakes ==
  /\ unit.op = "_user_stream_loop"
  /\ unit.reader = "recv"
  /\ unit.arrived # << >>
  /\ unit' = IF unit.stop
             THEN [unit EXCEPT !.arrived = Tail(@), !.reader = "stopped"]
             ELSE [unit EXCEPT !.arrived = Tail(@),
                               !.entered = Append(@, Head(unit.arrived)),
                               !.active = @ + 1,
                               !.reader = "handle_wait"]
  /\ UNCHANGED << controller_vars, open_orders, by_client_id >>

\* _handle_user_event is over, whatever it awaited (the refill's new_order,
\* new_listen_key): it returned, and the reader reads on, or it raised, and
\* the reader logs the error, sleeps 5 s and connects again, the closed
\* connection's buffer being lost.
UserHandlerDone ==
  /\ unit.op = "_user_stream_loop"
  /\ unit.reader = "handle_wait"
  /\ \E raised \in BOOLEAN :
       unit' = [unit EXCEPT !.active = @ - 1,
                            !.reader = IF raised THEN "reconnect_wait" ELSE "recv",
                            !.arrived = IF raised THEN << >> ELSE @]
  /\ UNCHANGED << controller_vars, open_orders, by_client_id >>

\* The sleep is over: `while not self._stop.is_set()` and a new connection.
UserReconnect ==
  /\ unit.op = "_user_stream_loop"
  /\ unit.reader = "reconnect_wait"
  /\ unit' = [unit EXCEPT !.reader = IF unit.stop THEN "stopped" ELSE "recv"]
  /\ UNCHANGED << controller_vars, open_orders, by_client_id >>

\* request_stop sets _stop.
UserStopSet ==
  /\ unit.op = "_user_stream_loop"
  /\ ~ unit.stop
  /\ unit' = [unit EXCEPT !.stop = TRUE]
  /\ UNCHANGED << controller_vars, open_orders, by_client_id >>

UserStreamNext ==
  \/ UserStreamConnect
  \/ UserMessageArrives
  \/ UserReaderTakes
  \/ UserHandlerDone
  \/ UserReconnect
  \/ UserStopSet

UserStreamSpec == UnitInit /\ [][UserStreamNext]_vars

\* C35: user-stream events are handled strictly one at a time and in arrival
\* order: at most one call of the handler has not returned, and the handler
\* is entered with the messages in the order they arrived.
C35_EventsOneAtATime ==
  unit.op = "_user_stream_loop"
  => /\ unit.active <= 1
     /\ \A i, j \in 1..Len(unit.entered) : i < j => unit.entered[i] < unit.entered[j]
     /\ unit.reader = "recv" => unit.active = 0

\* Two events were handled while a third arrived during the second call.
C35_Witness ==
  /\ unit.op = "_user_stream_loop"
  /\ Len(unit.entered) = 2
  /\ unit.active = 1
  /\ unit.arrived # << >>

\* --------------------------------- client.py: _signed_request on its own
MaxSignedCalls == 4

\* The tasks that call the signed endpoints.
SignedCallers == { "market", "user", "kill" }

\* No signed request made yet.  assigned counts the timestamps taken (line
\* 216), so a call's number is the rank of its timestamp; waiters is the
\* queue of asyncio.Lock, woken the waiters whose future release() has
\* resolved and that have not run yet; sent lists the calls in the order
\* their HTTP request was handed to the transport; in_flight counts the
\* requests handed over and not answered.
SignedStart ==
  /\ unit.op = "none"
  /\ unit' = [op |-> "_signed_request", at |-> [c \in SignedCallers |-> "idle"],
              call |-> [c \in SignedCallers |-> 0], assigned |-> 0, locked |-> FALSE,
              waiters |-> << >>, woken |-> {}, sent |-> << >>, in_flight |-> 0]
  /\ UNCHANGED << controller_vars, open_orders, by_client_id >>

\* asyncio.Lock.acquire without the fairness test (a free lock is taken even
\* when tasks wait for it); the ordering property tells it from the real one.
SignedLockFreeBarging == ~ unit.locked

\* asyncio.Lock.acquire returns at once only when the lock is free and no
\* task waits for it.
SignedLockFree == ~ unit.locked /\ unit.waiters = << >>

\* _signed_request up to `async with self._lock`: the timestamp is taken, the
\* query is signed, and with no await in between the lock is asked for; when
\* it is free the request goes to the transport in the same step.
SignedCall(c) ==
  /\ unit.op = "_signed_request"
  /\ unit.at[c] = "idle"
  /\ unit.assigned < MaxSignedCalls
  /\ LET n == unit.assigned + 1
     IN unit' = IF SignedLockFree
                THEN [unit EXCEPT !.assigned = n, !.call[c] = n, !.at[c] = "request_wait",
                                  !.locked = TRUE, !.sent = Append(@, n),
                                  !.in_flight = @ + 1]
                ELSE [unit EXCEPT !.assigned = n, !.call[c] = n, !.at[c] = "lock_wait",
                                  !.waiters = Append(@, c)]
  /\ UNCHANGED << controller_vars, open_orders, by_client_id >>

\* The HTTP response (or transport error) arrives: `async with` releases the
\* lock, and release() resolves the future of the first waiter not yet woken.
SignedResponse(c) ==
  /\ unit.op = "_signed_request"
  /\ unit.at[c] = "request_wait"
  /\ LET pending == SelectSeq(unit.waiters, LAMBDA w : w \notin unit.woken)
     IN unit' = [unit EXCEPT !.at[c] = "idle", !.in_flight = @ - 1, !.locked = FALSE,
                             !.woken = IF pending = << >> THEN @
                                       ELSE @ \cup { Head(pending) }]
  /\ UNCHANGED << controller_vars, open_orders, by_client_id >>

\* A woken waiter runs: it leaves the queue, takes the lock and hands its
\* request to the transport.
SignedWake(c) ==
  /\ unit.op = "_signed_request"
  /\ unit.at[c] = "lock_wait"
  /\ c \in unit.woken
  /\ unit' = [unit EXCEPT !.at[c] = "request_wait", !.locked = TRUE,
                          !.waiters = SelectSeq(@, LAMBDA w : w # c),
                          !.woken = @ \ { c },
                          !.sent = Append(@, unit.call[c]),
                          !.in_flight = @ + 1]
  /\ UNCHANGED << controller_vars, open_orders, by_client_id >>

SignedNext ==
  \/ SignedStart
  \/ \E c \in SignedCallers :
       \/ SignedCall(c)
       \/ SignedResponse(c)
       \/ SignedWake(c)

SignedSpec == UnitInit /\ [][SignedNext]_vars

\* C36: signed REST requests issued by different tasks are transmitted one at
\* a time and in the order their timestamps were assigned.
C36_SignedRequestsSerialized ==
  unit.op = "_signed_request"
  => /\ unit.in_flight <= 1
     /\ \A i, j \in 1..Len(unit.sent) : i < j => unit.sent[i] < unit.sent[j]

\* Three tasks asked while one request was in flight; the third request is
\* now on the wire after the first two.
C36_Witness ==
  /\ unit.op = "_signed_request"
  /\ unit.sent = << 1, 2, 3 >>
  /\ unit.in_flight = 1
  /\ unit.waiters # << >>

\* The quantities of the tracked SELL records, each submitted reduceOnly.
RECURSIVE TrackedSellQuantity(_, _)
TrackedSellQuantity(oo, keys) ==
  IF keys = {} THEN 0
  ELSE LET k == CHOOSE x \in keys : TRUE
       IN (IF oo[k].side = SELL THEN oo[k].quantity ELSE 0)
          + TrackedSellQuantity(oo, keys \ { k })

\* C37: in live mode the quantities of the tracked reduce-only SELL records
\* never add up to more than the long position the bot holds (the base
\* position plus the filled BUY quantity minus the filled SELL quantity).
C37_SellsCoveredByPosition ==
  ~ cfg.dry_run => TrackedSellQuantity(open_orders, DOMAIN open_orders) <= position_held

\* C38: a submission that was started against the previous layout and is
\* still awaiting its acknowledgement when a recenter or restart replaces
\* state and grid_layout is never inserted into the rebuilt order table.
C38_StaleAckNotTracked ==
  [][\A t \in Tasks :
       (pc[t] = "submit_wait" /\ loc[t].sub.stale /\ loc'[t] # loc[t])
       => /\ open_orders' = open_orders
          /\ by_client_id' = by_client_id]_vars

\* ------------------------------------ _handle_order_trade on its own
MaxTradeOrders == 2
MaxTradeEvents == 2
MaxTradeStamps == 2

\* The layout the handler runs on: one level per side around 102.
TradeLayout == build_grid(102, 1)

NoEvent == [c |-> << -1, 0 >>, i |-> 0, X |-> "", S |-> BUY, x |-> ""]

\* An order the bot does not know: its ids resolve to no record.
ForeignEvents ==
  { [c |-> << 9, 9 >>, i |-> MaxTradeOrders + MaxTradeEvents + 1, X |-> kind[1], S |-> side,
     x |-> kind[2]] : kind \in EventKinds, side \in { BUY, SELL } }

\* The events the exchange may send about the orders the bot tracks.
TrackedEvents ==
  { [c |-> open_orders[k].client_order_id, i |-> k, X |-> kind[1],
     S |-> open_orders[k].side, x |-> kind[2]] :
      k \in DOMAIN open_orders, kind \in EventKinds }

\* A bot whose bootstrap has built the layout; nothing tracked or delivered
\* yet.  ev is the last event delivered, before the maps and the layout that
\* delivery found, calls the REST calls it issued, ids the order ids issued.
TradeStart ==
  /\ unit.op = "none"
  /\ unit' = [op |-> "_handle_order_trade", phase |-> "deploy", layout |-> TradeLayout,
              ids |-> 0, delivered |-> 0, ev |-> NoEvent, redelivered |-> FALSE,
              before |-> [open_orders |-> EmptyMap, by_client_id |-> EmptyMap,
                          layout |-> TradeLayout],
              respawn |-> NoLevel, calls |-> 0]
  /\ UNCHANGED << controller_vars, open_orders, by_client_id >>

\* The order of a layout level is acknowledged and tracked, before any event
\* is delivered; its client id carries the level index and the millisecond
\* stamp of its submission.
TradeTrack ==
  /\ unit.op = "_handle_order_trade"
  /\ unit.phase = "deploy"
  /\ unit.ids < MaxTradeOrders
  /\ \E n \in 1..Len(unit.layout.levels), stamp \in 1..MaxTradeStamps :
       LET level == unit.layout.levels[n]
           record == OrderRecord(level.index, level.side, level.price, level.quantity,
                                 << level.index, stamp >>, unit.ids + 1, "NEW")
           st == track_order(st_now, unit.ids + 1, record)
       IN /\ ~ _order_exists(open_orders, level.side, level.price)
          /\ open_orders' = st.open_orders
          /\ by_client_id' = st.by_client_id
          /\ unit' = [unit EXCEPT !.ids = @ + 1]
  /\ UNCHANGED controller_vars

\* _handle_order_trade for the event ev, up to the refill's new_order call
\* (the one REST call the handler can issue) or to its return.
Deliver(ev, again) ==
  LET r == _handle_order_trade(st_now, unit.layout, ev.c, ev.i, ev.X, ev.S, ev.x)
      refill == r.respawn # NoLevel
                /\ ~ _order_exists(r.open_orders, r.respawn.side, r.respawn.price)
  IN /\ open_orders' = r.open_orders
     /\ by_client_id' = r.by_client_id
     /\ unit' = [unit EXCEPT !.phase = IF refill THEN "refill_wait" ELSE "returned",
                             !.layout = r.layout,
                             !.delivered = @ + 1,
                             !.ev = ev,
                             !.redelivered = again,
                             !.before = [open_orders |-> open_orders,
                                         by_client_id |-> by_client_id,
                                         layout |-> unit.layout],
                             !.respawn = r.respawn,
                             !.calls = IF refill THEN 1 ELSE 0]
     /\ UNCHANGED controller_vars

\* The user stream delivers an event about a tracked order, or about an order
\* the bot does not know.
TradeEvent ==
  /\ unit.op = "_handle_order_trade"
  /\ unit.phase \in { "deploy", "returned", "refilled" }
  /\ unit.delivered < MaxTradeEvents
  /\ \E ev \in TrackedEvents \cup ForeignEvents : Deliver(ev, FALSE)

\* The user stream delivers the FILLED TRADE event it delivered last once
\* more, after the handler has returned from the first delivery.
TradeRedeliver ==
  /\ unit.op = "_handle_order_trade"
  /\ unit.phase \in { "returned", "refilled" }
  /\ ~ unit.redelivered
  /\ unit.ev.X = "FILLED"
  /\ unit.ev.x = "TRADE"
  /\ ResolveRecord(unit.before, unit.ev.c, unit.ev.i) # 0
  /\ Deliver(unit.ev, TRUE)

\* The refill's new_order is answered: acknowledged and tracked under a new
\* order id and the client id made of the level index and the millisecond
\* stamp (modulo 1 000 000) of the submission, or failed; the handler returns.
TradeRefillDone ==
  /\ unit.op = "_handle_order_trade"
  /\ unit.phase = "refill_wait"
  /\ \E ok \in BOOLEAN, stamp \in 1..MaxTradeStamps :
       LET level == unit.respawn
           order_id == MaxTradeOrders + unit.delivered
           record == OrderRecord(level.index, level.side,
                                 _adjust_price_for_guard(level, best_bid, best_ask,
                                                         cfg.maker_guard_ticks),
                                 level.quantity, << level.index, stamp >>, order_id, "NEW")
           st == IF ok THEN track_order(st_now, order_id, record) ELSE st_now
       IN /\ open_orders' = st.open_orders
          /\ by_client_id' = st.by_client_id
          /\ unit' = [unit EXCEPT !.phase = "refilled"]
  /\ UNCHANGED controller_vars

TradeNext ==
  \/ TradeStart
  \/ TradeTrack
  \/ TradeEvent
  \/ TradeRedeliver
  \/ TradeRefillDone

TradeSpec == UnitInit /\ [][TradeNext]_vars

\* The handler has just run on unit.ev, and nothing else since: it returned,
\* or it awaits the refill's new_order.
JustDelivered ==
  /\ unit.op = "_handle_order_trade"
  /\ unit.phase \in { "refill_wait", "returned" }

\* C39: processing the same FILLED TRADE event twice is the same as
\* processing it once: the second delivery finds no record, leaves
\* open_orders, by_client_id and grid_layout as the first left them, and
\* submits no second refill.
C39_RedeliveryChangesNothing ==
  (unit.op = "_handle_order_trade" /\ unit.redelivered)
  => /\ ResolveRecord(unit.before, unit.ev.c, unit.ev.i) = 0
     /\ unit.phase = "returned"
     /\ unit.calls = 0
     /\ unit.layout = unit.before.layout

\* C40: an ORDER_TRADE_UPDATE for an order found neither by client id nor by
\* order id leaves open_orders, by_client_id and grid_layout unchanged and
\* issues no REST call; a PARTIALLY_FILLED event for a tracked order changes
\* only that record's status (and order_id), keeps it tracked, leaves
\* grid_layout unchanged and triggers no refill.
C40_UnknownAndPartialEvents ==
  JustDelivered
  => LET b == unit.before
         k == ResolveRecord(b, unit.ev.c, unit.ev.i)
     IN /\ k = 0
           => /\ open_orders = b.open_orders
              /\ by_client_id = b.by_client_id
              /\ unit.layout = b.layout
              /\ unit.calls = 0
        /\ (k # 0 /\ unit.ev.X = "PARTIALLY_FILLED")
           => /\ DOMAIN open_orders = DOMAIN b.open_orders
              /\ \A j \in DOMAIN open_orders \ { k } : open_orders[j] = b.open_orders[j]
              /\ open_orders[k] = [b.open_orders[k] EXCEPT !.status = "PARTIALLY_FILLED",
                                                            !.order_id = unit.ev.i]
              /\ by_client_id = b.by_client_id
              /\ unit.layout = b.layout
              /\ unit.respawn = NoLevel
              /\ unit.calls = 0

\* The second event delivered was a partial fill of a tracked order, whose
\* record is still tracked.
C40_Witness ==
  /\ JustDelivered
  /\ unit.delivered = 2
  /\ unit.ev.X = "PARTIALLY_FILLED"
  /\ ResolveRecord(unit.before, unit.ev.c, unit.ev.i) # 0
  /\ \E k \in DOMAIN open_orders : open_orders[k].status = "PARTIALLY_FILLED"

====
